---- MODULE Spec2Model ----
(***************************************************************************)
(* Search fields of the datacube PostGIS driver                            *)
(* (datacube/drivers/postgis/_fields.py): value normalisation, offset      *)
(* extraction with a selection policy, construction of search expressions  *)
(* and their evaluation by the index backend.                              *)
(*                                                                         *)
(* Values are tagged records, so that Python's None, float NaN, Decimal    *)
(* NaN, numbers, strings and datetimes stay distinct:                      *)
(*   [t |-> "none"]                    None / SQL NULL / unbounded         *)
(*   [t |-> "num", v |-> n]            a finite number                     *)
(*   [t |-> "nan"]                     float('nan')                        *)
(*   [t |-> "decnan"]                  Decimal('NaN')                      *)
(*   [t |-> "str", v |-> n]            the text of the number n            *)
(*   [t |-> "dt", v |-> w, tz |-> z]   a datetime, wall clock w, zone z    *)
(*   [t |-> "range", lower, upper, bounds]   a backend range value         *)
(*   [t |-> "error", e |-> name]       a raised exception                  *)
(***************************************************************************)
EXTENDS Integers, Sequences, FiniteSets, TLC

\* Largest number (and latest wall-clock tick) used as a value.
MaxVal == 2

VARIABLES
    field,            \* the field under use (immutable after construction)
    ds_value,         \* the dataset's value of the field, as the pair <<low, high>>
    search_val,       \* the index row's search_val written for ds_value (or the error raised)
    query,            \* the arguments of the last between (two) or == (one) call
    expr,             \* the Expression object last built on the field (or the error raised)
    pred,             \* the compiled alchemy_expression of expr (or the error raised)
    verdict,          \* outcome of the backend evaluating pred on the index row
    doc,              \* the metadata document extraction runs on
    out,              \* the value last returned by extract (or the error raised)
    selected,         \* the value the backend computes for the field's alchemy_expression on doc
    definition,       \* the field definitions handed to parse_fields
    fields,           \* what parse_fields returned: the mapping name -> field (or the error raised)
    interp_locks,     \* whether the interpreter's cached_property takes a lock around the first computation
    alias_cache,      \* the field instance's stored search_index_table (Unset until one is stored)
    threads,          \* per thread: where it is in reading search_index_table and the alias it holds
    aliases,          \* the number of alias objects created so far
    dataset_fields,   \* the metadata type's registry: the mapping field name -> field that product.metadata_type.dataset_fields holds
    product_docs,     \* per product of the index, its metadata document
    search_terms,     \* the query (key -> value) the calls of this behaviour are made with
    returned,         \* what the last query operation gave: its result or the error raised
    ra,               \* the first range of the overlap test
    rb,               \* the second range of the overlap test
    overlap,          \* what ranges_overlap last returned, with the order it was called in
    datasets,         \* the dataset table of the PostGIS index: per id, whether a row is absent, active or archived
    purge_call,       \* the last purge: its arguments, the table before and after it, and the list it returned
    product_rows,     \* the product table of the Postgres index: per product name its row, or NoRow
    dataset_rows,     \* per product name, the state of the product's dataset row: absent, active or archived
    by_name,          \* the lru_cache of get_by_name_unsafe: per name the cached Product, or Unset
    by_id,            \* the lru_cache of get_unsafe: per product id the cached Product, or Unset
    reply,            \* the last call on the ProductResource: its operation, arguments and what it returned or raised
    search_rows,      \* the rows of the string search index table: records of dataset_ref, search_key and search_val
    probe,            \* the last search on an indexed field: the field, the value, the rows it ran on and the dataset ids it matched
    now,              \* the reading of CLOCK_REALTIME, in seconds
    timeout,          \* the timeout handle_dynamic_token_authentication was set up with
    last_token,       \* last_token[0]: the token fetched last, None before the first fetch
    last_token_time,  \* last_token_time[0]: the clock reading at the last fetch, 0 before the first
    fetched,          \* how many times new_token was called; the n-th call returns token n
    connection        \* the last do_connect event: when it came, whether it fetched, and the password it set

vars == <<field, ds_value, search_val, query, expr, pred, verdict, doc, out,
          selected, definition, fields, interp_locks, alias_cache,
          threads, aliases, dataset_fields, product_docs,
          search_terms, returned, ra, rb, overlap, datasets,
          purge_call, product_rows, dataset_rows, by_name, by_id,
          reply, search_rows, probe, now, timeout, last_token,
          last_token_time, fetched, connection>>

----------------------------------------------------------------------------
(* Values *)

NoneV == [t |-> "none"]
\* Nothing computed yet.
Unset == [t |-> "unset"]
NaN == [t |-> "nan"]
DecNaN == [t |-> "decnan"]
Num(n) == [t |-> "num", v |-> n]
Str(n) == [t |-> "str", v |-> n]
Dt(w, z) == [t |-> "dt", v |-> w, tz |-> z]
\* The float n (half = 0) or n + 0.5 (half = 1).
Float(n, half) == [t |-> "float", v |-> n, half |-> half]
Err(e) == [t |-> "error", e |-> e]
PgRange(lo, hi, b) == [t |-> "range", lower |-> lo, upper |-> hi, bounds |-> b]

IsErr(x) == "e" \in DOMAIN x

----------------------------------------------------------------------------
(* Variable groups. Each specification moves the variables of one group;   *)
(* the variables of the other groups stay as they start.                    *)

fieldVars == <<field, ds_value, search_val, query, expr, pred, verdict, doc, out,
               selected, definition, fields>>

aliasVars == <<interp_locks, alias_cache, threads, aliases>>

searchVars == <<dataset_fields, product_docs, search_terms, returned>>

overlapVars == <<ra, rb, overlap>>

storeVars == <<datasets, purge_call>>

catalogVars == <<product_rows, dataset_rows, by_name, by_id, reply>>

rowsVars == <<search_rows, probe>>

authVars == <<now, timeout, last_token, last_token_time, fetched, connection>>

FieldIdle ==
    /\ field = Unset
    /\ ds_value = <<>>
    /\ search_val = Unset
    /\ query = <<>>
    /\ expr = Unset
    /\ pred = Unset
    /\ verdict = "unset"
    /\ doc = Unset
    /\ out = Unset
    /\ selected = Unset
    /\ definition = Unset
    /\ fields = Unset

AliasIdle ==
    /\ interp_locks = Unset
    /\ alias_cache = Unset
    /\ threads = Unset
    /\ aliases = Unset

SearchIdle ==
    /\ dataset_fields = Unset
    /\ product_docs = Unset
    /\ search_terms = Unset
    /\ returned = Unset

OverlapIdle ==
    /\ ra = Unset
    /\ rb = Unset
    /\ overlap = Unset

StoreIdle ==
    /\ datasets = Unset
    /\ purge_call = Unset

CatalogIdle ==
    /\ product_rows = Unset
    /\ dataset_rows = Unset
    /\ by_name = Unset
    /\ by_id = Unset
    /\ reply = Unset

RowsIdle ==
    /\ search_rows = Unset
    /\ probe = Unset

AuthIdle ==
    /\ now = Unset
    /\ timeout = Unset
    /\ last_token = Unset
    /\ last_token_time = Unset
    /\ fetched = Unset
    /\ connection = Unset

NotField == <<aliasVars, searchVars, overlapVars, storeVars, catalogVars, rowsVars,
               authVars>>

NotFieldIdle ==
    /\ AliasIdle
    /\ SearchIdle
    /\ OverlapIdle
    /\ StoreIdle
    /\ CatalogIdle
    /\ RowsIdle
    /\ AuthIdle

NotAlias == <<fieldVars, searchVars, overlapVars, storeVars, catalogVars, rowsVars,
               authVars>>

NotAliasIdle ==
    /\ FieldIdle
    /\ SearchIdle
    /\ OverlapIdle
    /\ StoreIdle
    /\ CatalogIdle
    /\ RowsIdle
    /\ AuthIdle

NotSearch == <<fieldVars, aliasVars, overlapVars, storeVars, catalogVars, rowsVars,
                authVars>>

NotSearchIdle ==
    /\ FieldIdle
    /\ AliasIdle
    /\ OverlapIdle
    /\ StoreIdle
    /\ CatalogIdle
    /\ RowsIdle
    /\ AuthIdle

NotOverlap == <<fieldVars, aliasVars, searchVars, storeVars, catalogVars, rowsVars,
                 authVars>>

NotOverlapIdle ==
    /\ FieldIdle
    /\ AliasIdle
    /\ SearchIdle
    /\ StoreIdle
    /\ CatalogIdle
    /\ RowsIdle
    /\ AuthIdle

NotStore == <<fieldVars, aliasVars, searchVars, overlapVars, catalogVars, rowsVars,
               authVars>>

NotStoreIdle ==
    /\ FieldIdle
    /\ AliasIdle
    /\ SearchIdle
    /\ OverlapIdle
    /\ CatalogIdle
    /\ RowsIdle
    /\ AuthIdle

NotCatalog == <<fieldVars, aliasVars, searchVars, overlapVars, storeVars, rowsVars,
                 authVars>>

NotCatalogIdle ==
    /\ FieldIdle
    /\ AliasIdle
    /\ SearchIdle
    /\ OverlapIdle
    /\ StoreIdle
    /\ RowsIdle
    /\ AuthIdle

NotRows == <<fieldVars, aliasVars, searchVars, overlapVars, storeVars, catalogVars,
              authVars>>

NotRowsIdle ==
    /\ FieldIdle
    /\ AliasIdle
    /\ SearchIdle
    /\ OverlapIdle
    /\ StoreIdle
    /\ CatalogIdle
    /\ AuthIdle

NotAuth == <<fieldVars, aliasVars, searchVars, overlapVars, storeVars, catalogVars,
              rowsVars>>

NotAuthIdle ==
    /\ FieldIdle
    /\ AliasIdle
    /\ SearchIdle
    /\ OverlapIdle
    /\ StoreIdle
    /\ CatalogIdle
    /\ RowsIdle

----------------------------------------------------------------------------
(* Zones and value sets *)

Zones == {"naive", "utc", "plus1"}

\* Hours a zone is ahead of UTC.
UtcOffset(z) == IF z = "plus1" THEN 1 ELSE 0

\* datacube.utils.dates.tz_as_utc: a naive datetime is tagged UTC without
\* shifting, an aware one is converted to UTC.
tz_as_utc(d) == IF d.tz = "naive" THEN Dt(d.v, "utc") ELSE Dt(d.v - UtcOffset(d.tz), "utc")

NumValues == {Num(n) : n \in 0..MaxVal}
StrValues == {Str(n) : n \in 0..MaxVal}
DateValues == {Dt(w, z) : w \in 0..MaxVal, z \in Zones}
FloatValues == {Float(n, h) : n \in 0..MaxVal, h \in {0, 1}}

\* The position of a finite value on its axis (numbers, or UTC instants).
\* The backend sorts a numeric NaN above every number.
Ord(x) ==
    CASE x.t = "dt" -> tz_as_utc(x).v
      [] x.t \in {"nan", "decnan"} -> MaxVal + 3
      [] OTHER -> x.v

\* Every position a value or a range bound of the model can take.
Points == (0 - 2)..(MaxVal + 2)

----------------------------------------------------------------------------
(* Field types *)

ScalarNumericKinds == {"numeric", "integer", "double"}
NumericRangeKinds == {"numeric-range", "integer-range", "double-range"}
ScalarKinds == {"string", "datetime"} \cup ScalarNumericKinds
RangeKinds == {"datetime-range"} \cup NumericRangeKinds
DateKinds == {"datetime", "datetime-range"}

\* RangeDocField.FIELD_CLASS: the type of the lower and greater sub-fields.
FIELD_CLASS(kind) ==
    CASE kind = "numeric-range" -> "numeric"
      [] kind = "integer-range" -> "integer"
      [] kind = "double-range" -> "double"
      [] kind = "datetime-range" -> "datetime"
      [] OTHER -> "string"

Field(kind, indexed) == [kind |-> kind, indexed |-> indexed]

QueryFields == {Field(k, i) : k \in ScalarKinds \cup RangeKinds, i \in BOOLEAN}

----------------------------------------------------------------------------
(* Backend range values *)

Closed == "[]"

LowerInc(b) == b \in {"[]", "[)"}
UpperInc(b) == b \in {"[]", "(]"}

\* A range whose lower bound lies above its upper bound is rejected by the
\* backend ("range lower bound must be less than or equal to range upper bound").
Malformed(r) ==
    /\ r.lower.t # "none"
    /\ r.upper.t # "none"
    /\ Ord(r.lower) > Ord(r.upper)

\* A range with equal bounds holds a point only when both bounds are inclusive.
IsEmpty(r) ==
    /\ r.lower.t # "none"
    /\ r.upper.t # "none"
    /\ Ord(r.lower) = Ord(r.upper)
    /\ ~(LowerInc(r.bounds) /\ UpperInc(r.bounds))

\* The backend's range constructor, func.numrange / func.tstzrange.
RangeCtor(lo, hi, b) ==
    IF Malformed(PgRange(lo, hi, b)) THEN Err("DataError") ELSE PgRange(lo, hi, b)

\* lower edge of r lies at or below upper edge of s
EdgeBelow(r, s) ==
    \/ r.lower.t = "none"
    \/ s.upper.t = "none"
    \/ Ord(r.lower) < Ord(s.upper)
    \/ /\ Ord(r.lower) = Ord(s.upper)
       /\ LowerInc(r.bounds)
       /\ UpperInc(s.bounds)

\* The && operator on two well-formed ranges.
RangeOverlaps(s, q) ==
    /\ ~IsEmpty(s)
    /\ ~IsEmpty(q)
    /\ EdgeBelow(s, q)
    /\ EdgeBelow(q, s)

\* The @> operator of a range and an element.
RangeContainsElem(s, v) ==
    /\ ~IsEmpty(s)
    /\ \/ s.lower.t = "none"
       \/ Ord(s.lower) < Ord(v)
       \/ Ord(s.lower) = Ord(v) /\ LowerInc(s.bounds)
    /\ \/ s.upper.t = "none"
       \/ Ord(v) < Ord(s.upper)
       \/ Ord(v) = Ord(s.upper) /\ UpperInc(s.bounds)

----------------------------------------------------------------------------
(* Value conversions of the field types *)

\* cast(value, postgres.NUMERIC): text is read as a number, a float NaN
\* becomes the numeric NaN, NULL stays NULL.
CastNumeric(value) ==
    CASE value.t = "str" -> Num(value.v)
      [] value.t = "nan" -> DecNaN
      [] OTHER -> value

\* DateDocField.normalise_value: an ISO string is parsed (to a naive
\* datetime), then the value is brought to UTC.
normalise_value(value) ==
    IF value.t = "str" THEN tz_as_utc(Dt(value.v, "naive")) ELSE tz_as_utc(value)

\* value_to_alchemy of the scalar field types.
value_to_alchemy(kind, value) ==
    CASE kind \in ScalarNumericKinds -> CastNumeric(value)
      [] kind = "datetime" ->
            IF value.t \in {"dt", "str"} THEN normalise_value(value) ELSE Err("ValueError")
      [] OTHER -> value

\* value_to_alchemy of the range field types, on the pair (low, high).
range_value_to_alchemy(kind, low, high) ==
    IF kind \in RangeKinds THEN RangeCtor(low, high, Closed) ELSE Err("NotImplementedError")

\* Variant: the upper bound left exclusive.
NumericSearchValue_HalfOpen(value) ==
    IF value.t = "nan"
    THEN Err("UnindexableValue")
    ELSE RangeCtor(CastNumeric(value), CastNumeric(value), "[)")

\* NumericDocField.search_value_to_alchemy: [v, v], inclusive on both sides.
NumericSearchValue(value) ==
    IF value.t = "nan"
    THEN Err("UnindexableValue")
    ELSE RangeCtor(CastNumeric(value), CastNumeric(value), Closed)

\* DateDocField.search_value_to_alchemy: [v, v] in UTC, inclusive on both sides.
DateSearchValue(value) ==
    LET v == IF value.t = "dt" THEN tz_as_utc(value) ELSE value
    IN RangeCtor(v, v, Closed)

\* Variant: only the low bound is tested for NaN.
NumericRangeSearchValue_LowOnly(kind, low, high) ==
    IF low.t = "nan"
    THEN Err("UnindexableValue")
    ELSE range_value_to_alchemy(kind, low, high)

\* NumericRangeDocField.search_value_to_alchemy
NumericRangeSearchValue(kind, low, high) ==
    IF low.t = "nan" \/ high.t = "nan"
    THEN Err("UnindexableValue")
    ELSE range_value_to_alchemy(kind, low, high)

\* DateRangeDocField.search_value_to_alchemy
DateRangeSearchValue(low, high) ==
    LET lo == IF low.t = "dt" THEN tz_as_utc(low) ELSE low
        hi == IF high.t = "dt" THEN tz_as_utc(high) ELSE high
    IN RangeCtor(lo, hi, Closed)

\* search_value_to_alchemy: the value written to the search table. A scalar
\* value v arrives as the pair (v, v).
search_value_to_alchemy(f, low, high) ==
    CASE f.kind \in ScalarNumericKinds -> NumericSearchValue(low)
      [] f.kind = "datetime" -> DateSearchValue(low)
      [] f.kind \in NumericRangeKinds -> NumericRangeSearchValue(f.kind, low, high)
      [] f.kind = "datetime-range" -> DateRangeSearchValue(low, high)
      [] OTHER -> value_to_alchemy(f.kind, low)

----------------------------------------------------------------------------
(* Expressions *)

ValueBetweenExpression(low, high) ==
    [t |-> "ValueBetween", low_value |-> low, high_value |-> high]

\* Variant: the query range built with its upper bound exclusive.
RangeBetweenExpression_HalfOpen(low, high) ==
    [t |-> "RangeBetween", low_value |-> low, high_value |-> high,
     alc_val |-> PgRange(low, high, "[)")]

\* Variant: the constructor rejects bounds given in the wrong order.
RangeBetweenExpression_Validating(low, high) ==
    IF Malformed(PgRange(low, high, Closed))
    THEN Err("ValueError")
    ELSE [t |-> "RangeBetween", low_value |-> low, high_value |-> high,
          alc_val |-> PgRange(low, high, Closed)]

\* RangeBetweenExpression.__init__: the query range is built with bounds '[]';
\* the client-side Range object checks nothing.
RangeBetweenExpression(low, high) ==
    [t |-> "RangeBetween", low_value |-> low, high_value |-> high,
     alc_val |-> PgRange(low, high, Closed)]

RangeContainsExpression(value) == [t |-> "RangeContains", value |-> value]

EqualsExpression(value) == [t |-> "Equals", value |-> value]

\* Variant: only an int is a year.
number_implies_year_IntOnly(v) == IF v.t = "num" THEN Dt(v.v, "naive") ELSE v

\* _number_implies_year: a bare number is the first instant of that year
\* (year n starts at tick n of the time axis); anything else passes through.
\* A float is truncated by int(), which refuses a NaN.
number_implies_year(v) ==
    CASE v.t = "num" -> Dt(v.v, "naive")
      [] v.t = "float" -> Dt(v.v, "naive")
      [] v.t = "nan" -> Err("ValueError")
      [] OTHER -> v

\* Variant: a bound that is no datetime is taken as missing.
DateRangeBetween_Lenient(low, high) ==
    LET lo == number_implies_year(low)
        hi == number_implies_year(high)
    IN RangeBetweenExpression(IF lo.t = "dt" THEN tz_as_utc(lo) ELSE NoneV,
                              IF hi.t = "dt" THEN tz_as_utc(hi) ELSE NoneV)

\* DateRangeDocField.between
DateRangeBetween(low, high) ==
    LET lo == number_implies_year(low)
        hi == number_implies_year(high)
    IN IF lo.t = "dt" /\ hi.t = "dt"
       THEN RangeBetweenExpression(tz_as_utc(lo), tz_as_utc(hi))
       ELSE Err("ValueError")

\* NumericDocField.between
NumericBetween(low, high) == RangeBetweenExpression(low, high)

\* DateDocField.between
DateBetween(low, high) == ValueBetweenExpression(low, high)

\* field.between(low, high) for each field type.
between(f, low, high) ==
    CASE f.kind \in ScalarNumericKinds -> NumericBetween(low, high)
      [] f.kind = "datetime" -> DateBetween(low, high)
      [] f.kind \in NumericRangeKinds -> RangeBetweenExpression(low, high)
      [] f.kind = "datetime-range" -> DateRangeBetween(low, high)
      [] OTHER -> Err("NotImplementedError")

\* Variant: equality on a range field compares for exact equality.
RangeEq_Exact(f, value) ==
    LET casted_val == value_to_alchemy(FIELD_CLASS(f.kind), value)
    IN IF IsErr(casted_val) THEN casted_val ELSE EqualsExpression(casted_val)

\* RangeDocField.__eq__
RangeEq(f, value) ==
    LET casted_val == value_to_alchemy(FIELD_CLASS(f.kind), value)
    IN IF IsErr(casted_val) THEN casted_val ELSE RangeContainsExpression(casted_val)

\* field == value for each field type.
eq(f, value) ==
    IF f.kind \in RangeKinds THEN RangeEq(f, value) ELSE EqualsExpression(value)

\* ValueBetweenExpression.alchemy_expression
ValueBetweenAlchemy(e) ==
    CASE e.low_value.t # "none" /\ e.high_value.t # "none" ->
            [p |-> "and", low |-> e.low_value, high |-> e.high_value]
      [] e.low_value.t # "none" -> [p |-> "ge", v |-> e.low_value]
      [] e.high_value.t # "none" -> [p |-> "le", v |-> e.high_value]
      [] OTHER -> Err("ValueError")

\* RangeBetweenExpression.alchemy_expression
RangeBetweenAlchemy(e) == [p |-> "overlaps", r |-> e.alc_val]

\* RangeContainsExpression.alchemy_expression
RangeContainsAlchemy(e) == [p |-> "contains", v |-> e.value]

\* EqualsExpression.alchemy_expression
EqualsAlchemy(e) == [p |-> "eq", v |-> e.value]

\* expression.alchemy_expression for each expression type.
alchemy_expression(e) ==
    CASE e.t = "ValueBetween" -> ValueBetweenAlchemy(e)
      [] e.t = "RangeBetween" -> RangeBetweenAlchemy(e)
      [] e.t = "RangeContains" -> RangeContainsAlchemy(e)
      [] OTHER -> EqualsAlchemy(e)

\* The backend evaluating a compiled predicate on the search_val of an index
\* row. Comparing a range column with a scalar has no operator; a query range
\* with its bounds inverted is rejected when the statement runs.
Evaluate(pd, sv) ==
    CASE pd.p = "overlaps" ->
            IF sv.t # "range" \/ Malformed(pd.r) THEN "error"
            ELSE IF RangeOverlaps(sv, pd.r) THEN "match" ELSE "nomatch"
      [] pd.p = "contains" ->
            IF sv.t # "range" THEN "error"
            ELSE IF pd.v.t # "none" /\ RangeContainsElem(sv, pd.v) THEN "match" ELSE "nomatch"
      [] pd.p = "eq" ->
            IF sv.t = "range" THEN "error"
            ELSE IF sv = pd.v THEN "match" ELSE "nomatch"
      [] pd.p = "ge" ->
            IF sv.t = "range" THEN "error"
            ELSE IF Ord(sv) >= Ord(pd.v) THEN "match" ELSE "nomatch"
      [] pd.p = "le" ->
            IF sv.t = "range" THEN "error"
            ELSE IF Ord(sv) <= Ord(pd.v) THEN "match" ELSE "nomatch"
      [] OTHER ->
            IF sv.t = "range" THEN "error"
            ELSE IF Ord(sv) >= Ord(pd.low) /\ Ord(sv) <= Ord(pd.high)
                 THEN "match" ELSE "nomatch"

----------------------------------------------------------------------------
(* Building and running a search on one indexed field. A behaviour follows  *)
(* one dataset row and one query on the field.                              *)

\* Values a dataset can hold for a field of the kind.
IndexValues(kind) ==
    CASE kind \in ScalarNumericKinds -> NumValues \cup StrValues \cup {NaN}
      [] kind \in NumericRangeKinds -> NumValues \cup {NaN, NoneV}
      [] kind = "datetime" -> DateValues
      [] kind = "datetime-range" -> DateValues \cup {NoneV}
      [] OTHER -> StrValues

\* Values a query can give as a bound of between.
BoundValues(kind) ==
    CASE kind \in ScalarNumericKinds \cup NumericRangeKinds -> NumValues \cup {NoneV}
      [] kind = "datetime" -> DateValues \cup {NoneV}
      [] kind = "datetime-range" ->
            DateValues \cup NumValues \cup FloatValues \cup StrValues \cup {NaN, NoneV}
      [] OTHER -> StrValues \cup {NoneV}

\* Values a query can compare a field with.
EqValues(kind) ==
    CASE kind \in ScalarNumericKinds \cup NumericRangeKinds ->
            NumValues \cup StrValues \cup {NaN}
      [] kind \in DateKinds -> DateValues \cup StrValues \cup {NoneV}
      [] OTHER -> StrValues

InitQuery ==
    /\ NotFieldIdle
    /\ field \in QueryFields
    /\ ds_value = <<>>
    /\ query = <<>>
    /\ search_val = Unset
    /\ expr = Unset
    /\ pred = Unset
    /\ verdict = "unset"
    /\ doc = Unset
    /\ out = Unset
    /\ selected = Unset
    /\ definition = Unset
    /\ fields = Unset

\* A dataset with the given value is indexed: its row of the search table
\* gets search_value_to_alchemy(value), unless that raises.
Index ==
    /\ field.indexed
    /\ ds_value = <<>>
    /\ \E low, high \in IndexValues(field.kind) :
          /\ field.kind \in ScalarKinds => high = low
          /\ ds_value' = <<low, high>>
          /\ search_val' = search_value_to_alchemy(field, low, high)
    /\ verdict' = "unset"
    /\ UNCHANGED <<field, query, expr, pred, doc, out, selected, definition, fields, NotField>>

\* field.between(low, high)
Between ==
    /\ query = <<>>
    /\ \E low, high \in BoundValues(field.kind) :
          /\ query' = <<low, high>>
          /\ expr' = between(field, low, high)
    /\ pred' = Unset
    /\ verdict' = "unset"
    /\ UNCHANGED <<field, ds_value, search_val, doc, out, selected, definition, fields, NotField>>

\* field == value
Eq ==
    /\ query = <<>>
    /\ \E v \in EqValues(field.kind) :
          /\ query' = <<v>>
          /\ expr' = eq(field, v)
    /\ pred' = Unset
    /\ verdict' = "unset"
    /\ UNCHANGED <<field, ds_value, search_val, doc, out, selected, definition, fields, NotField>>

\* expr.alchemy_expression
Compile ==
    /\ expr # Unset
    /\ ~IsErr(expr)
    /\ pred' = alchemy_expression(expr)
    /\ verdict' = "unset"
    /\ UNCHANGED <<field, ds_value, search_val, query, expr, doc, out, selected, definition, fields, NotField>>

\* The backend runs the predicate against the field's row of the search table.
Run ==
    /\ field.indexed
    /\ search_val # Unset
    /\ ~IsErr(search_val)
    /\ pred # Unset
    /\ ~IsErr(pred)
    /\ verdict' = Evaluate(pred, search_val)
    /\ UNCHANGED <<field, ds_value, search_val, query, expr, pred, doc, out, selected, definition, fields, NotField>>

NextQuery == Index \/ Between \/ Eq \/ Compile \/ Run

SpecQuery == InitQuery /\ [][NextQuery]_vars

----------------------------------------------------------------------------
(* Properties of the search expressions *)

Finite(x) == x.t \in {"num", "str", "dt"}

\* A bound of between that is a number or a datetime.
FiniteBound(x) == x.t \in {"num", "dt"}

\* The point p lies in the stored interval [a, b] (a missing bound is open-ended).
InStored(p) ==
    /\ search_val.lower.t # "none" => Ord(search_val.lower) <= p
    /\ search_val.upper.t # "none" => p <= Ord(search_val.upper)

Indexed == ds_value # <<>> /\ ~IsErr(search_val)
Ran == verdict # "unset"
CalledBetween == Len(query) = 2
CalledEq == Len(query) = 1

\* C1: for a scalar numeric or date field and a non-NaN value v, the search
\* value is the closed interval [v, v]: both bounds inclusive, containing the
\* point v and no point strictly below or above it.
C1_ScalarSearchValueIsPoint ==
    (/\ field.kind \in ScalarNumericKinds \cup {"datetime"}
     /\ ds_value # <<>>
     /\ ds_value[1].t # "nan")
    => /\ ~IsErr(search_val)
       /\ search_val.t = "range"
       /\ search_val.bounds = "[]"
       /\ \A p \in Points :
            RangeContainsElem(search_val, Num(p)) <=> p = Ord(ds_value[1])

\* C1 witness: a date given in a zone ahead of UTC has been indexed.
C1_Witness ==
    /\ field.kind = "datetime"
    /\ ds_value # <<>>
    /\ ds_value[1].tz = "plus1"
    /\ search_val.t = "range"

\* C2: on a range field, between(low, high) with low <= high matches the
\* stored interval exactly when the two closed intervals share a point.
C2_RangeBetweenIsOverlap ==
    (/\ field.kind \in RangeKinds
     /\ CalledBetween
     /\ Ran
     /\ FiniteBound(query[1]) /\ FiniteBound(query[2])
     /\ Ord(query[1]) <= Ord(query[2]))
    => (verdict = "match"
          <=> \E p \in Points :
                 InStored(p) /\ Ord(query[1]) <= p /\ p <= Ord(query[2]))

\* C2 witness: the query interval touches the stored interval at one endpoint
\* only, and the row matches.
C2_Witness ==
    /\ field.kind \in RangeKinds
    /\ CalledBetween
    /\ verdict = "match"
    /\ FiniteBound(query[1]) /\ FiniteBound(query[2])
    /\ search_val.lower.t # "none"
    /\ Ord(query[1]) < Ord(query[2])
    /\ Ord(query[2]) = Ord(search_val.lower)

C5_ScalarBetweenIsOverlap ==
    (/\ field.indexed
     /\ field.kind \in ScalarNumericKinds \cup {"datetime"}
     /\ CalledBetween)
    => /\ expr.t = "RangeBetween"
       /\ (pred # Unset /\ ~IsErr(pred)) => pred.p = "overlaps"

\* The predicate is the inequality on the one bound given: >= low or <= high
\* (or, on a stored range, the overlap with the interval open at the other end).
OneSided(pd, low, high) ==
    IF low.t # "none"
    THEN pd = [p |-> "ge", v |-> low]
            \/ pd = [p |-> "overlaps", r |-> PgRange(low, NoneV, "[]")]
    ELSE pd = [p |-> "le", v |-> high]
            \/ pd = [p |-> "overlaps", r |-> PgRange(NoneV, high, "[]")]

\* C6: a between on a scalar field with neither bound set is rejected with a
\* value error when the predicate is built; with exactly one bound set it is
\* accepted and is the one-sided inequality for that bound.
C6_BetweenNeedsABound ==
    (/\ field.kind \in ScalarNumericKinds \cup {"datetime"}
     /\ CalledBetween
     /\ pred # Unset)
    => /\ (query[1].t = "none" /\ query[2].t = "none") => pred = Err("ValueError")
       /\ (query[1].t = "none") # (query[2].t = "none")
            => OneSided(pred, query[1], query[2])

\* C7: on a range field, == v matches the stored interval [a, b] exactly
\* when a <= v <= b.
C7_RangeEqIsContainment ==
    (/\ field.kind \in RangeKinds
     /\ CalledEq
     /\ Ran
     /\ Finite(query[1]))
    => (verdict = "match" <=> InStored(Ord(query[1])))

\* C7 witness: a value strictly inside a stored interval, equal to neither
\* of its bounds, matches.
C7_Witness ==
    /\ field.kind \in RangeKinds
    /\ CalledEq
    /\ verdict = "match"
    /\ search_val.lower.t # "none"
    /\ search_val.upper.t # "none"
    /\ Ord(search_val.lower) < Ord(query[1])
    /\ Ord(query[1]) < Ord(search_val.upper)

\* C13: a float NaN as the value of a numeric field, or as either bound of a
\* numeric range field, makes the search-value conversion raise
\* UnindexableValue; value_to_alchemy of a NaN (the conversion used by ==
\* on a range field) raises nothing.
C13_NaNIsUnindexable ==
    /\ (/\ field.kind \in ScalarNumericKinds
        /\ ds_value # <<>>
        /\ ds_value[1] = NaN)
       => search_val = Err("UnindexableValue")
    /\ (/\ field.kind \in NumericRangeKinds
        /\ ds_value # <<>>
        /\ (ds_value[1] = NaN \/ ds_value[2] = NaN))
       => search_val = Err("UnindexableValue")
    /\ (/\ field.kind \in NumericRangeKinds
        /\ CalledEq
        /\ query[1] = NaN)
       => expr = RangeContainsExpression(DecNaN)

\* C13 witness: a range whose high bound alone is NaN was refused by the
\* index, and == NaN on the same field built an expression.
C13_Witness ==
    /\ field.kind \in NumericRangeKinds
    /\ ds_value # <<>>
    /\ ds_value[1].t = "num"
    /\ ds_value[2] = NaN
    /\ search_val = Err("UnindexableValue")
    /\ CalledEq
    /\ query[1] = NaN
    /\ expr.t = "RangeContains"

\* A bound given as a bare year, int or float.
IsYear(x) == x.t \in {"num", "float"}

\* datetime(int(y), 1, 1)
YearStart(y) == Dt(y.v, "naive")

\* C14: on a date-range field, between(y1, y2) with int or float years
\* builds the predicate of between(datetime(int(y1), 1, 1),
\* datetime(int(y2), 1, 1)); a bound that is a datetime is used as it is,
\* brought to UTC.
C14_BareYearsAreYearStarts ==
    (field.kind = "datetime-range" /\ CalledBetween)
    => /\ (IsYear(query[1]) /\ IsYear(query[2]))
            => /\ expr = DateRangeBetween(YearStart(query[1]), YearStart(query[2]))
               /\ expr.t = "RangeBetween"
               /\ pred # Unset => pred = alchemy_expression(
                      DateRangeBetween(YearStart(query[1]), YearStart(query[2])))
       /\ (query[1].t = "dt" /\ (IsYear(query[2]) \/ query[2].t = "dt"))
            => expr.low_value = tz_as_utc(query[1])
       /\ (query[2].t = "dt" /\ (IsYear(query[1]) \/ query[1].t = "dt"))
            => expr.high_value = tz_as_utc(query[2])

\* C14 witness: a float year with a fraction and an int year were compiled
\* to an overlap predicate.
C14_Witness ==
    /\ field.kind = "datetime-range"
    /\ CalledBetween
    /\ query[1] = Float(1, 1)
    /\ query[2] = Num(2)
    /\ pred # Unset
    /\ pred.p = "overlaps"
    /\ pred.r.lower = Dt(1, "utc")

\* A bound that is no datetime even after the conversion of bare years.
NotDatetime(x) == x.t \notin {"dt", "num", "float"}

\* C15: on a date-range field, between with a bound that is not a datetime
\* after the conversion of bare years (text, None) raises a value error and
\* builds no predicate.
C15_NonDatetimeBoundsRejected ==
    (/\ field.kind = "datetime-range"
     /\ CalledBetween
     /\ (NotDatetime(query[1]) \/ NotDatetime(query[2])))
    => /\ expr = Err("ValueError")
       /\ pred = Unset

\* C15 witness: a datetime with a text bound, and a year with None, were
\* refused.
C15_Witness ==
    /\ field.kind = "datetime-range"
    /\ CalledBetween
    /\ \/ query[1].t = "dt" /\ query[2].t = "str"
       \/ query[1].t = "none" /\ query[2].t = "num"
    /\ expr = Err("ValueError")

----------------------------------------------------------------------------
(* Documents and offsets *)

\* Longest list of alternative offsets a field is declared with.
MaxOffsets == 2

\* A key that is not in the mapping.
Absent == [t |-> "absent"]

\* Raw values a document holds at a leaf: numbers, their text, a float NaN.
RawValues == NumValues \cup StrValues \cup {NaN}

\* What a key of a mapping can be bound to (None is an explicit null).
Leaves == RawValues \cup {NoneV, Absent}

Mapping(l) == [t |-> "map", d |-> l]

\* Documents {a: leaf, b: leaf | {d: leaf}}, each key possibly absent.
Docs == [a : Leaves, b : Leaves \cup {Mapping(l) : l \in Leaves}]

Paths == {<<"a">>, <<"b">>, <<"b", "d">>, <<"a", "d">>}

\* datacube.utils.get_doc_offset: walk the path through the nested
\* mappings; a key missing at any level, or a step into something that is
\* not a mapping, gives None.
get_doc_offset(offset, document) ==
    LET top == IF offset[1] = "a" THEN document.a ELSE document.b
        found == IF Len(offset) = 1 THEN top
                 ELSE IF top.t = "map" THEN top.d
                 ELSE Absent
    IN IF found = Absent THEN NoneV ELSE found

\* An offset is one path, [one |-> path], or a list of alternative paths,
\* [many |-> <<path, ...>>]; a field built without an offset has [many |-> <<>>].
One(path) == [one |-> path]
Many(paths) == [many |-> paths]

IsOne(o) == "one" \in DOMAIN o

DistinctSeqs(S, n) ==
    {q \in [1..n -> S] : \A i, j \in 1..n : i # j => q[i] # q[j]}

OffsetChoices ==
    {One(p) : p \in Paths}
        \cup {Many(q) : q \in UNION {DistinctSeqs(Paths, n) : n \in 0..MaxOffsets}}

\* Offsets of the sub-fields of a range field: lists over the two leaves.
RangeOffsetChoices ==
    {Many(q) : q \in UNION {DistinctSeqs({<<"a">>, <<"b", "d">>}, n) : n \in 0..MaxOffsets}}

----------------------------------------------------------------------------
(* Parsing and combining extracted values *)

\* parse_value of PgDocField (identity), IntDocField (int), DoubleDocField
\* (float) and NumericDocField (Decimal).
parse_value(kind, v) ==
    CASE kind = "string" -> v
      [] v.t = "map" -> Err("TypeError")
      [] v.t = "str" -> Num(v.v)
      [] v.t = "nan" /\ kind = "integer" -> Err("ValueError")
      [] v.t = "nan" /\ kind = "numeric" -> DecNaN
      [] OTHER -> v

\* Python's a < b: "true", "false", or the name of the exception raised.
\* A float NaN compares false with everything, ordering a Decimal NaN
\* raises, and numbers do not order against text or mappings.
Less(a, b) ==
    CASE a.t = "map" \/ b.t = "map" -> "TypeError"
      [] (a.t = "str") # (b.t = "str") -> "TypeError"
      [] a.t = "decnan" \/ b.t = "decnan" -> "InvalidOperation"
      [] a.t = "nan" \/ b.t = "nan" -> "false"
      [] OTHER -> IF a.v < b.v THEN "true" ELSE "false"

\* min(x) of one argument iterates over it: text of one character is its own
\* minimum, anything else is not iterable.
OverOne(x) == IF x.t = "str" THEN x ELSE Err("TypeError")

RECURSIVE MinFrom(_, _, _)
MinFrom(values, i, best) ==
    IF i > Len(values) THEN best
    ELSE LET c == Less(values[i], best)
         IN CASE c = "true" -> MinFrom(values, i + 1, values[i])
              [] c = "false" -> MinFrom(values, i + 1, best)
              [] OTHER -> Err(c)

RECURSIVE MaxFrom(_, _, _)
MaxFrom(values, i, best) ==
    IF i > Len(values) THEN best
    ELSE LET c == Less(best, values[i])
         IN CASE c = "true" -> MaxFrom(values, i + 1, values[i])
              [] c = "false" -> MaxFrom(values, i + 1, best)
              [] OTHER -> Err(c)

\* The builtin min(*values): the first argument stays unless a later one is
\* strictly less.
py_min(values) == IF Len(values) = 1 THEN OverOne(values[1]) ELSE MinFrom(values, 2, values[1])

\* The builtin max(*values).
py_max(values) == IF Len(values) = 1 THEN OverOne(values[1]) ELSE MaxFrom(values, 2, values[1])

\* Variant: the last value that is not None.
coalesce_Last(values) ==
    LET set == {i \in 1..Len(values) : values[i] # NoneV}
    IN IF set = {} THEN NoneV ELSE values[CHOOSE i \in set : \A j \in set : j <= i]

\* _coalesce(*values): the first value that is not None.
coalesce(values) ==
    LET set == {i \in 1..Len(values) : values[i] # NoneV}
    IN IF set = {} THEN NoneV ELSE values[CHOOSE i \in set : \A j \in set : i <= j]

Selections == {"first", "least", "greatest"}

\* SELECTION_TYPES[selection].calc
calc(selection, values) ==
    CASE selection = "first" -> coalesce(values)
      [] selection = "least" -> py_min(values)
      [] OTHER -> py_max(values)

\* The list of paths an offset stands for (a single path is wrapped).
OffsetList(o) == IF IsOne(o) THEN <<o.one>> ELSE o.many

\* The values found at the offsets, in declaration order, without the Nones.
RECURSIVE Resolved(_, _)
Resolved(offsets, document) ==
    IF offsets = <<>> THEN <<>>
    ELSE LET v == get_doc_offset(Head(offsets), document)
             rest == Resolved(Tail(offsets), document)
         IN IF v = NoneV THEN rest ELSE <<v>> \o rest

\* The first exception raised while parsing the values in order, if any.
RECURSIVE FirstError(_)
FirstError(values) ==
    IF values = <<>> THEN NoneV
    ELSE IF IsErr(Head(values)) THEN Head(values) ELSE FirstError(Tail(values))

\* Variant: the values are always handed to the aggregation function.
extract_offset_value_AlwaysAggregate(kind, document, o, selection) ==
    IF OffsetList(o) = <<>> THEN Err("ValueError")
    ELSE LET raw == Resolved(OffsetList(o), document)
             values == [i \in 1..Len(raw) |-> parse_value(kind, raw[i])]
         IN CASE FirstError(values) # NoneV -> FirstError(values)
              [] values = <<>> -> NoneV
              [] OTHER -> calc(selection, values)

\* PgDocField._extract_offset_value
extract_offset_value(kind, document, o, selection) ==
    IF OffsetList(o) = <<>> THEN Err("ValueError")
    ELSE LET raw == Resolved(OffsetList(o), document)
             values == [i \in 1..Len(raw) |-> parse_value(kind, raw[i])]
         IN CASE FirstError(values) # NoneV -> FirstError(values)
              [] values = <<>> -> NoneV
              [] Len(values) = 1 -> values[1]
              [] OTHER -> calc(selection, values)

----------------------------------------------------------------------------
(* The same value computed by the backend *)

\* alchemy_column[offset].astext (jsonb #>>): the text at the path, NULL when
\* the path is missing or holds a JSON null. A number gives its text; the
\* "nan" value stands for the text 'NaN' and a mapping for its JSON text.
astext(offset, document) ==
    LET v == get_doc_offset(offset, document)
    IN IF v.t = "num" THEN Str(v.v) ELSE v

\* value_to_alchemy(alchemy_column[offset].astext) as the backend evaluates
\* it: the text cast to the field's column type. NULL stays NULL, text that
\* is no number is rejected, and integer has no NaN.
ColumnValue(kind, offset, document) ==
    LET text == astext(offset, document)
    IN CASE text = NoneV -> NoneV
         [] kind \in ScalarNumericKinds /\ text.t = "map" -> Err("DataError")
         [] kind = "integer" /\ text.t = "nan" -> Err("DataError")
         [] OTHER -> value_to_alchemy(kind, text)

\* The backend's sort position of a non-NULL value: NaN (and the text 'NaN')
\* above every number, the text of a mapping above that.
PgOrd(x) == IF x.t = "map" THEN MaxVal + 4 ELSE Ord(x)

\* func.coalesce: the first argument that is not NULL; arguments after it
\* are not evaluated.
RECURSIVE pg_coalesce(_)
pg_coalesce(values) ==
    IF values = <<>> THEN NoneV
    ELSE IF Head(values) # NoneV THEN Head(values)
    ELSE pg_coalesce(Tail(values))

\* func.least / func.greatest: NULL arguments are ignored, the result is
\* NULL only when every argument is NULL.
pg_extreme(values, greatest) ==
    LET present == {values[i] : i \in 1..Len(values)} \ {NoneV}
    IN CASE FirstError(values) # NoneV -> FirstError(values)
         [] present = {} -> NoneV
         [] OTHER ->
              CHOOSE x \in present : \A y \in present :
                  IF greatest THEN PgOrd(y) <= PgOrd(x) ELSE PgOrd(x) <= PgOrd(y)

\* SELECTION_TYPES[selection].pg_calc
pg_calc(selection, values) ==
    CASE selection = "first" -> pg_coalesce(values)
      [] selection = "least" -> pg_extreme(values, FALSE)
      [] OTHER -> pg_extreme(values, TRUE)

\* PgDocField._alchemy_offset_value, evaluated on the row holding document.
alchemy_offset_value(kind, document, o, selection) ==
    IF OffsetList(o) = <<>> THEN Err("ValueError")
    ELSE LET offsets == OffsetList(o)
             alchemy_values ==
                 [i \in 1..Len(offsets) |-> ColumnValue(kind, offsets[i], document)]
         IN IF Len(alchemy_values) > 1
            THEN pg_calc(selection, alchemy_values)
            ELSE alchemy_values[1]

----------------------------------------------------------------------------
(* Extraction from a document *)

\* Variant: any selection is taken.
SimpleDocField_AnySelection(kind, indexed, offset, selection) ==
    [kind |-> kind, indexed |-> indexed, offset |-> offset, selection |-> selection]

\* SimpleDocField.__init__: the offset is stored as given, a selection that
\* is no key of SELECTION_TYPES raises.
SimpleDocField(kind, indexed, offset, selection) ==
    IF selection \notin Selections
    THEN Err("ValueError")
    ELSE [kind |-> kind, indexed |-> indexed, offset |-> offset, selection |-> selection]

\* RangeDocField.__init__: the lower sub-field takes the least of its
\* offsets, the greater sub-field the greatest.
RangeDocField(kind, indexed, min_offset, max_offset) ==
    [kind |-> kind, indexed |-> indexed,
     lower |-> SimpleDocField(FIELD_CLASS(kind), FALSE, min_offset, "least"),
     greater |-> SimpleDocField(FIELD_CLASS(kind), FALSE, max_offset, "greatest")]

\* model.Range(begin, end)
Range(begin, end) == [t |-> "Range", begin |-> begin, end |-> end]

\* Python truthiness: None and a zero number are false.
Truthy(v) == ~(v = NoneV \/ (v.t = "num" /\ v.v = 0))

\* SimpleDocField.extract
SimpleExtract(f, document) ==
    extract_offset_value(f.kind, document, f.offset, f.selection)

\* RangeDocField.extract
RangeExtract(f, document) ==
    LET min_val == SimpleExtract(f.lower, document)
        max_val == SimpleExtract(f.greater, document)
    IN CASE IsErr(min_val) -> min_val
         [] IsErr(max_val) -> max_val
         [] ~Truthy(min_val) /\ ~Truthy(max_val) -> NoneV
         [] OTHER -> Range(min_val, max_val)

\* Field types whose parse_value is part of this module (dates are parsed by
\* datacube.utils.parse_time).
ExtractScalarKinds == {"string"} \cup ScalarNumericKinds

ExtractFields ==
    {SimpleDocField(k, TRUE, o, sel) :
        k \in ExtractScalarKinds, o \in OffsetChoices, sel \in Selections}
    \cup {RangeDocField(k, TRUE, lo, hi) :
        k \in NumericRangeKinds, lo \in RangeOffsetChoices, hi \in RangeOffsetChoices}

InitExtract ==
    /\ NotFieldIdle
    /\ field \in ExtractFields
    /\ doc \in Docs
    /\ out = Unset
    /\ ds_value = <<>>
    /\ search_val = Unset
    /\ query = <<>>
    /\ expr = Unset
    /\ pred = Unset
    /\ verdict = "unset"
    /\ selected = Unset
    /\ definition = Unset
    /\ fields = Unset

\* field.extract(doc) on a scalar field
Extract ==
    /\ field # Unset
    /\ field.kind \in ExtractScalarKinds
    /\ out' = SimpleExtract(field, doc)
    /\ UNCHANGED <<field, ds_value, search_val, query, expr, pred, verdict, doc, selected, definition, fields, NotField>>

\* field.extract(doc) on a range field
ExtractRange ==
    /\ field # Unset
    /\ field.kind \in NumericRangeKinds
    /\ out' = RangeExtract(field, doc)
    /\ UNCHANGED <<field, ds_value, search_val, query, expr, pred, verdict, doc, selected, definition, fields, NotField>>

\* The backend evaluates field.alchemy_expression on the row holding doc.
Select ==
    /\ field # Unset
    /\ field.kind \in ExtractScalarKinds
    /\ selected' = alchemy_offset_value(field.kind, doc, field.offset, field.selection)
    /\ UNCHANGED <<field, ds_value, search_val, query, expr, pred, verdict, doc, out,
                   definition, fields, NotField>>

NextExtract == Extract \/ ExtractRange \/ Select

SpecExtract == InitExtract /\ [][NextExtract]_vars

----------------------------------------------------------------------------
(* Field definitions and parse_fields *)

\* Field.type_name of datacube.model.fields, which SimpleDocField inherits.
DefaultTypeName == "string"

\* The type_name attribute of each field class.
type_name(cls) ==
    CASE cls = "SimpleDocField" -> DefaultTypeName
      [] cls = "NumericDocField" -> "numeric"
      [] cls = "IntDocField" -> "integer"
      [] cls = "DoubleDocField" -> "double"
      [] cls = "DateDocField" -> "datetime"
      [] cls = "NumericRangeDocField" -> "numeric-range"
      [] cls = "IntRangeDocField" -> "integer-range"
      [] cls = "DoubleRangeDocField" -> "double-range"
      [] OTHER -> "datetime-range"

\* Variant: the plain scalar class is not among the field classes.
types_NoSimple ==
    {"IntDocField", "DoubleDocField", "DateDocField",
     "NumericRangeDocField", "IntRangeDocField", "DoubleRangeDocField",
     "DateRangeDocField"}

\* parse_fields: the field classes of this driver.
types ==
    {"SimpleDocField", "IntDocField", "DoubleDocField", "DateDocField",
     "NumericRangeDocField", "IntRangeDocField", "DoubleRangeDocField",
     "DateRangeDocField"}

\* parse_fields: type_map, with the alias float-range.
type_map ==
    [n \in {type_name(c) : c \in types} \cup {"float-range"} |->
        IF n = "float-range" THEN "NumericRangeDocField"
        ELSE CHOOSE c \in types : type_name(c) = n]

\* A descriptor is a mapping from some of the keys type, indexed, offset,
\* selection, min_offset, max_offset to their values; a missing key is
\* missing from its domain.
Get(descriptor, key, default) ==
    IF key \in DOMAIN descriptor THEN descriptor[key] ELSE default

\* The error of an unknown type: it names the field, the type and the
\* available types.
UnknownType(name, tname) ==
    [t |-> "error", e |-> "ValueError", name |-> name, type_name |-> tname,
     available |-> DOMAIN type_map]

\* The error of a constructor argument the field class does not take.
UnexpectedArgument(name, tname) ==
    [t |-> "error", e |-> "RuntimeError", name |-> name, type_name |-> tname]

\* str.lower on the texts of the model.
Lower(text) ==
    CASE text = "True" -> "true"
      [] text = "False" -> "false"
      [] OTHER -> text

\* indexed: text, [s |-> text], is compared with 'true' whatever its case; a
\* boolean, [b |-> bool], is taken as it is.
ParseIndexed(indexed_val) ==
    IF "s" \in DOMAIN indexed_val THEN Lower(indexed_val.s) = "true"
    ELSE indexed_val.b

\* parse_fields._get_field
get_field(name, descriptor) ==
    LET tname == Get(descriptor, "type", "string")
        indexed == ParseIndexed(Get(descriptor, "indexed", [s |-> "true"]))
        ctorargs == DOMAIN descriptor \ {"type", "description", "indexed"}
    IN IF tname \notin DOMAIN type_map
       THEN UnknownType(name, tname)
       ELSE LET kind == type_name(type_map[tname])
            IN CASE kind \in ScalarKinds /\ ctorargs \subseteq {"offset", "selection"} ->
                      SimpleDocField(kind, indexed,
                                     Get(descriptor, "offset", Many(<<>>)),
                                     Get(descriptor, "selection", "first"))
                 [] kind \in RangeKinds /\ ctorargs \subseteq {"min_offset", "max_offset"} ->
                      RangeDocField(kind, indexed,
                                    Get(descriptor, "min_offset", Many(<<>>)),
                                    Get(descriptor, "max_offset", Many(<<>>)))
                 [] OTHER -> UnexpectedArgument(name, tname)

\* The fields of the entries of a definition, in order.
GetFields(def) == [i \in 1..Len(def) |-> get_field(def[i].name, def[i].descriptor)]

\* Variant: an entry that cannot be built is left out of the mapping.
parse_fields_SkipInvalid(def) ==
    LET valid == {i \in 1..Len(def) : ~IsErr(GetFields(def)[i])}
    IN [n \in {def[i].name : i \in valid} |->
           GetFields(def)[CHOOSE i \in valid : def[i].name = n]]

\* parse_fields: the mapping from each name to its field, or the first
\* error raised on the way.
parse_fields(def) ==
    CASE "string" \notin DOMAIN type_map -> Err("KeyError")
      [] type_map["string"] # "SimpleDocField" -> Err("AssertionError")
      [] FirstError(GetFields(def)) # NoneV -> FirstError(GetFields(def))
      [] OTHER ->
           [n \in {def[i].name : i \in 1..Len(def)} |->
               GetFields(def)[CHOOSE i \in 1..Len(def) : def[i].name = n]]


\* The type names of the field-specification format.
TypeNames ==
    {"string", "integer", "double", "numeric", "datetime", "integer-range",
     "double-range", "numeric-range", "datetime-range", "float-range"}

\* A mapping without keys.
Empty == [k \in {} |-> NoneV]

TypeParts == {Empty} \cup {[type |-> n] : n \in TypeNames \cup {"bogus"}}

IndexedParts == {Empty, [indexed |-> [s |-> "True"]], [indexed |-> [b |-> FALSE]]}

DefOffsets == {One(<<"a">>), Many(<<<<"b", "d">>, <<"a">>>>), Many(<<>>)}

DefRangeOffsets == {One(<<"a">>), One(<<"b", "d">>), Many(<<<<"a">>, <<"b", "d">>>>)}

ArgParts ==
    {Empty}
        \cup {[offset |-> o] : o \in DefOffsets}
        \cup {[offset |-> o, selection |-> sel] :
                o \in DefOffsets, sel \in Selections \cup {"median"}}
        \cup {[min_offset |-> lo, max_offset |-> hi] :
                lo \in DefRangeOffsets, hi \in DefRangeOffsets}
        \cup {[min_offset |-> lo] : lo \in DefRangeOffsets}

Descriptors == {tp @@ ip @@ ap : tp \in TypeParts, ip \in IndexedParts, ap \in ArgParts}

Entry(name, descriptor) == [name |-> name, descriptor |-> descriptor]

\* Definitions of one field x, or of x followed by a second field y.
Definitions ==
    {<<Entry("x", d)>> : d \in Descriptors}
        \cup {<<Entry("x", d), Entry("y", e)>> :
                d \in Descriptors,
                e \in {[offset |-> One(<<"a">>)], [type |-> "bogus"]}}

\* Documents the parsed fields are used on.
ParseDocs ==
    {d \in Docs : /\ d.a \in {Num(0), Num(MaxVal), Absent}
                  /\ d.b \in {Mapping(Num(0)), Mapping(Num(1)), Absent}}

InitParse ==
    /\ NotFieldIdle
    /\ definition \in Definitions
    /\ doc \in ParseDocs
    /\ fields = Unset
    /\ field = Unset
    /\ out = Unset
    /\ selected = Unset
    /\ ds_value = <<>>
    /\ search_val = Unset
    /\ query = <<>>
    /\ expr = Unset
    /\ pred = Unset
    /\ verdict = "unset"

\* parse_fields(definition, column)
ParseFields ==
    /\ fields = Unset
    /\ fields' = parse_fields(definition)
    /\ UNCHANGED <<field, ds_value, search_val, query, expr, pred, verdict, doc, out,
                   selected, definition, NotField>>

\* fields[name]: a field of the mapping is taken into use.
Lookup ==
    /\ fields # Unset
    /\ ~IsErr(fields)
    /\ field = Unset
    /\ \E name \in DOMAIN fields : field' = fields[name]
    /\ UNCHANGED <<ds_value, search_val, query, expr, pred, verdict, doc, out,
                   selected, definition, fields, NotField>>

NextParse == ParseFields \/ Lookup \/ Extract \/ ExtractRange \/ Select

SpecParse == InitParse /\ [][NextParse]_vars

----------------------------------------------------------------------------
(* Properties of extraction *)

Extracted == out # Unset

\* The declared offsets of the scalar field under use.
Offs == OffsetList(field.offset)

\* Positions of the offsets that resolve to a value in the document.
Hit == {i \in 1..Len(Offs) : get_doc_offset(Offs[i], doc) # NoneV}

\* The parsed value at the i-th offset.
ParsedAt(i) == parse_value(field.kind, get_doc_offset(Offs[i], doc))

\* The offsets that resolve, in declaration order.
RECURSIVE HitOffsets(_)
HitOffsets(offsets) ==
    IF offsets = <<>> THEN <<>>
    ELSE IF get_doc_offset(Head(offsets), doc) = NoneV
         THEN HitOffsets(Tail(offsets))
         ELSE <<Head(offsets)>> \o HitOffsets(Tail(offsets))

Orders(n) == {q \in [1..n -> 1..n] : \A i, j \in 1..n : i # j => q[i] # q[j]}

\* C4: a range field extracts None only if both inner extractions are None;
\* otherwise, zero included, it extracts the Range of the two inner values.
C4_RangeNoneOnlyIfBothNone ==
    (/\ field.kind \in RangeKinds
     /\ Extracted
     /\ ~IsErr(out))
    => LET min_val == SimpleExtract(field.lower, doc)
           max_val == SimpleExtract(field.greater, doc)
       IN /\ out = NoneV => (min_val = NoneV /\ max_val = NoneV)
          /\ (min_val # NoneV \/ max_val # NoneV) => out = Range(min_val, max_val)

\* C8: with selection least or greatest, extraction returns the same value
\* for every order of the field's offsets.
C8_LeastGreatestIgnoreOrder ==
    (/\ field.kind \in ScalarKinds
     /\ field.selection \in {"least", "greatest"}
     /\ Extracted
     /\ ~IsErr(out))
    => \A q \in Orders(Len(Offs)) :
          LET other == extract_offset_value(field.kind, doc,
                           Many([i \in 1..Len(Offs) |-> Offs[q[i]]]), field.selection)
          IN ~IsErr(other) => other = out

C10_MissingOffsetsAndSingleValue ==
    (/\ field.kind \in ScalarKinds
     /\ Extracted
     /\ Offs # <<>>)
    => /\ Hit = {} => out = NoneV
       /\ \A i \in Hit : Hit = {i} => out = ParsedAt(i)
       /\ Hit # {} => out = extract_offset_value(field.kind, doc,
                                Many(HitOffsets(Offs)), field.selection)

\* C10 witness: of two offsets one stops at a missing nested key, the other
\* resolves to text, and a least field returns the parsed number.
C10_Witness ==
    /\ field.kind = "integer"
    /\ field.selection = "least"
    /\ Extracted
    /\ Len(Offs) = 2
    /\ Len(Offs[1]) = 2
    /\ Hit = {2}
    /\ get_doc_offset(Offs[2], doc).t = "str"
    /\ out.t = "num"

----------------------------------------------------------------------------
(* The in-memory value against the backend's value *)

Selected == selected # Unset

\* The backend's rendering of a value extracted in memory: a string field
\* holds the text of a number, a numeric column holds one NaN.
SqlOf(kind, x) ==
    CASE kind = "string" /\ x.t = "num" -> Str(x.v)
      [] kind # "string" /\ x.t = "nan" -> DecNaN
      [] OTHER -> x

\* C11: for every document, offset list and selection policy, the value
\* extracted in memory (calc) is the value the backend computes from the
\* same offsets (pg_calc), whenever both produce a value.
C11_BackendValueAgrees ==
    (/\ field.kind \in ScalarKinds
     /\ Extracted
     /\ Selected
     /\ ~IsErr(out)
     /\ ~IsErr(selected))
    => SqlOf(field.kind, out) = selected

----------------------------------------------------------------------------
(* Properties of parsed fields *)

Parsed == fields # Unset

\* The descriptor of the first entry of the definition, x.
DescX == definition[1].descriptor

\* The field in use is the one parsed from the entry x.
UsingX == Parsed /\ ~IsErr(fields) /\ field # Unset /\ field = fields["x"]

\* The values found in doc at the paths of an offset.
Found(o) == {get_doc_offset(OffsetList(o)[i], doc) : i \in 1..Len(OffsetList(o))} \ {NoneV}

\* C12: a field parsed from a range-type definition with min_offset and
\* max_offset extracts Range(lo, hi), lo the minimum over the min_offset
\* paths and hi the maximum over the max_offset paths, when both sets of
\* paths resolve.
C12_ParsedRangeExtracts ==
    (/\ UsingX
     /\ field.kind \in NumericRangeKinds
     /\ {"min_offset", "max_offset"} \subseteq DOMAIN DescX
     /\ Found(DescX.min_offset) # {}
     /\ Found(DescX.max_offset) # {}
     /\ Extracted)
    => /\ out.t = "Range"
       /\ \A v \in Found(DescX.min_offset) : out.begin.v <= v.v
       /\ out.begin \in Found(DescX.min_offset)
       /\ \A v \in Found(DescX.max_offset) : v.v <= out.end.v
       /\ out.end \in Found(DescX.max_offset)

\* The definition holds the one entry x, with at most the keys type and
\* indexed.
BareX == Len(definition) = 1 /\ DOMAIN DescX \subseteq {"type", "indexed"}

\* C16: parse_fields accepts each of the type names string, integer, double,
\* numeric, datetime, integer-range, double-range, numeric-range,
\* datetime-range and float-range, and returns a field for it.
C16_EveryTypeNameAccepted ==
    (/\ Parsed
     /\ BareX
     /\ "type" \in DOMAIN DescX
     /\ DescX.type \in TypeNames)
    => /\ ~IsErr(fields)
       /\ "x" \in DOMAIN fields

\* The type the i-th entry of the definition asks for.
TypeOf(i) == Get(definition[i].descriptor, "type", "string")

\* The error that names the i-th entry and its type, and lists the types
\* of the type map.
NamesEntry(err, i) ==
    /\ IsErr(err)
    /\ err.e = "ValueError"
    /\ DOMAIN err = {"t", "e", "name", "type_name", "available"}
    /\ err.name = definition[i].name
    /\ err.type_name = TypeOf(i)
    /\ err.available = DOMAIN type_map

\* C17: when an entry of the definition asks for a type that is not in the
\* type map, parse_fields raises and returns no mapping; the error of the
\* first such entry names the field and the type and lists the valid types.
C17_UnknownTypeRejected ==
    Parsed =>
       /\ (\E i \in 1..Len(definition) : TypeOf(i) \notin DOMAIN type_map)
             => IsErr(fields)
       /\ TypeOf(1) \notin DOMAIN type_map => NamesEntry(fields, 1)
       /\ (/\ Len(definition) = 2
           /\ TypeOf(2) \notin DOMAIN type_map
           /\ ~IsErr(get_field("x", DescX)))
             => NamesEntry(fields, 2)

\* C17 witness: the second entry has the unknown type, after a first entry
\* that is a valid field.
C17_Witness ==
    /\ Parsed
    /\ Len(definition) = 2
    /\ TypeOf(1) = "integer"
    /\ TypeOf(2) = "bogus"
    /\ NamesEntry(fields, 2)

\* The record of a scalar field.
IsSimpleField(f) == DOMAIN f = {"kind", "indexed", "offset", "selection"}

\* C18: an entry without a type key is parsed as type string, which the
\* type map resolves to the plain scalar field SimpleDocField; the
\* assertion on the type map never fails.
C18_DefaultTypeIsString ==
    Parsed =>
       /\ fields \notin {Err("AssertionError"), Err("KeyError")}
       /\ type_map["string"] = "SimpleDocField"
       /\ (/\ Len(definition) = 1
           /\ DOMAIN DescX \subseteq {"indexed", "offset", "selection"}
           /\ Get(DescX, "selection", "first") \in Selections)
             => /\ ~IsErr(fields)
                /\ IsSimpleField(fields["x"])
                /\ fields["x"].kind = "string"

\* C18 witness: an entry with no key at all was parsed to an indexed
\* string field.
C18_Witness ==
    /\ Parsed
    /\ Len(definition) = 1
    /\ DescX = Empty
    /\ ~IsErr(fields)
    /\ fields["x"].kind = "string"
    /\ fields["x"].indexed

\* The i-th entry asks for a scalar field type and gives it only arguments
\* a scalar field takes.
ScalarEntry(i) ==
    /\ TypeOf(i) \in DOMAIN type_map
    /\ type_name(type_map[TypeOf(i)]) \in ScalarKinds
    /\ DOMAIN definition[i].descriptor \subseteq {"type", "indexed", "offset", "selection"}

\* The i-th entry gives a selection that is not first, least or greatest.
BadSelection(i) ==
    /\ "selection" \in DOMAIN definition[i].descriptor
    /\ definition[i].descriptor.selection \notin Selections

\* C19: a scalar field asked for with a selection other than first, least
\* or greatest is refused when it is constructed, so parse_fields raises,
\* and no scalar field with another selection exists.
C19_UnknownSelectionRejected ==
    Parsed =>
       /\ (\E i \in 1..Len(definition) : BadSelection(i)) => IsErr(fields)
       /\ (ScalarEntry(1) /\ BadSelection(1)) => fields = Err("ValueError")
       /\ ~IsErr(fields) =>
             \A n \in DOMAIN fields :
                 IsSimpleField(fields[n]) => fields[n].selection \in Selections
       /\ (field # Unset /\ IsSimpleField(field)) => field.selection \in Selections

\* C19 witness: an integer field with an offset and the selection median
\* was refused.
C19_Witness ==
    /\ Parsed
    /\ TypeOf(1) = "integer"
    /\ ScalarEntry(1)
    /\ "offset" \in DOMAIN DescX
    /\ BadSelection(1)
    /\ fields = Err("ValueError")

\* C20: every scalar field that was constructed has a non-empty offset; a
\* definition without an offset, or with an empty one, yields no field.
C20_OffsetNeverEmpty ==
    /\ (Parsed /\ ~IsErr(fields)) =>
          \A n \in DOMAIN fields :
              IsSimpleField(fields[n]) => OffsetList(fields[n].offset) # <<>>
    /\ (field # Unset /\ IsSimpleField(field)) => OffsetList(field.offset) # <<>>

----------------------------------------------------------------------------
(* search_index_table: the alias of the search index table a field joins.   *)
(* It is a cached_property of the field instance: the first read computes   *)
(* aliased(...) and stores the result in the instance's __dict__, later     *)
(* reads return what is stored. Interpreters before 3.12 run the first      *)
(* computation under a lock of the property; later interpreters take none.  *)

MaxThreads == 3

Threads == 1..MaxThreads

InitAlias ==
    /\ interp_locks \in BOOLEAN
    /\ alias_cache = Unset
    /\ threads = [t \in Threads |-> [pc |-> "idle", val |-> Unset]]
    /\ aliases = 0
    /\ NotAliasIdle

\* aliased(search_field_index_map[type_name], name=...): every call makes a
\* new alias object; objects are told apart by their number.
aliased(n) == [alias |-> n]

At(t, pc, val) == [threads EXCEPT ![t] = [pc |-> pc, val |-> val]]

\* A thread reads field.search_index_table: the lookup in the instance's
\* __dict__, which returns the stored alias when there is one.
Access(t) ==
    /\ threads[t].pc \in {"idle", "done"}
    /\ threads' = IF alias_cache = Unset
                  THEN At(t, "missed", Unset)
                  ELSE At(t, "done", alias_cache)
    /\ UNCHANGED <<interp_locks, alias_cache, aliases, NotAlias>>

\* The body of search_index_table, run by a thread whose lookup missed, on
\* an interpreter without the lock.
Resolve(t) ==
    /\ ~interp_locks
    /\ threads[t].pc = "missed"
    /\ aliases' = aliases + 1
    /\ threads' = At(t, "resolved", aliased(aliases'))
    /\ UNCHANGED <<interp_locks, alias_cache, NotAlias>>

\* The thread stores the alias it computed and returns it.
Store(t) ==
    /\ threads[t].pc = "resolved"
    /\ alias_cache' = threads[t].val
    /\ threads' = At(t, "done", threads[t].val)
    /\ UNCHANGED <<interp_locks, aliases, NotAlias>>

\* The same on an interpreter with the lock: the lookup is repeated under
\* the lock, and the body runs only when it misses again.
ResolveLocked(t) ==
    /\ interp_locks
    /\ threads[t].pc = "missed"
    /\ IF alias_cache = Unset
       THEN /\ aliases' = aliases + 1
            /\ alias_cache' = aliased(aliases')
            /\ threads' = At(t, "done", aliased(aliases'))
       ELSE /\ threads' = At(t, "done", alias_cache)
            /\ UNCHANGED <<alias_cache, aliases>>
    /\ UNCHANGED <<interp_locks, NotAlias>>

NextAlias ==
    \E t \in Threads : Access(t) \/ Resolve(t) \/ Store(t) \/ ResolveLocked(t)

SpecAlias == InitAlias /\ [][NextAlias]_vars

Observed(t) == threads[t].pc = "done"

\* C21: every read of a field's search_index_table, sequential or racing
\* with the first read, returns the same alias object.
C21_OneAliasPerField ==
    \A t, u \in Threads :
        Observed(t) /\ Observed(u) => threads[t].val = threads[u].val

\* With the lock, every read returns the one alias.
LockedOneAlias == interp_locks => C21_OneAliasPerField

----------------------------------------------------------------------------
(* Searching through the index. The products of the index share one        *)
(* metadata type, whose dataset_fields mapping is the field registry the   *)
(* query operations of DatasetResource look fields up in.                  *)

ProductNames == {"ls8", "s2"}

\* Product.id
ProductId(name) == IF name = "ls8" THEN Num(1) ELSE Num(2)

\* The name of a product or of a metadata type, as a query value.
Name(n) == [t |-> "name", n |-> n]

MetadataTypeName == "eo"

\* A field hard-coded into the schema: NativeField defines no extract and
\* keeps the can_extract of the base class, False.
NativeField == [kind |-> "native"]

\* The registry as built from the metadata type's definition: the native
\* product_id and two search fields read from the documents.
BuiltFields ==
    [product_id |-> NativeField,
     platform |-> SimpleDocField("string", TRUE, One(<<"a">>), "first"),
     orbit |-> SimpleDocField("integer", TRUE, One(<<"b">>), "first")]

\* The metadata section of a product definition.
ProductDocs == {d \in Docs : d.a \in {Str(0), Absent} /\ d.b \in {Num(0), Absent}}

\* kwargs of a query operation, in the order the caller gives them.
KeyOrder == <<"product", "metadata_type", "platform", "orbit", "cloud">>

QueryValues(key) ==
    CASE key = "product" -> {Name("ls8"), Name("s2"), Name("nope")}
      [] key = "metadata_type" -> {Name("eo"), Name("other")}
      [] key = "platform" -> {Str(0), Str(1)}
      [] key = "orbit" -> {Num(0), Num(1)}
      [] key = "cloud" -> {Str(0)}

Keys == {KeyOrder[i] : i \in DOMAIN KeyOrder}

\* Every query over some of the keys.
Queries ==
    UNION {{q \in [K -> UNION {QueryValues(k) : k \in K}] :
                \A k \in K : q[k] \in QueryValues(k)} : K \in SUBSET Keys}

\* dict.get(key): None for a key that is not in the mapping.
DictGet(mapping, key) == IF key \in DOMAIN mapping THEN mapping[key] ELSE NoneV

\* Variant: a lookup that answers an unknown name with a native field.
RegistryGet_Fallback(registry, key) ==
    IF key \in DOMAIN registry THEN registry[key] ELSE NativeField

\* dataset_fields.get: the field of a name, None for a name without a field.
RegistryGet(registry, key) == DictGet(registry, key)

\* dict(a); a.update(b): the entries of b, and those of a under other keys.
Update(a, b) == [k \in DOMAIN a \cup DOMAIN b |-> IF k \in DOMAIN b THEN b[k] ELSE a[k]]

Without(mapping, keys) == [k \in DOMAIN mapping \ keys |-> mapping[k]]

can_extract(f) == f.kind # "native"

\* field.extract(document) of a field of the registry
FieldExtract(f, document) == SimpleExtract(f, document)

\* index.fields.as_expression of a value that is no range: field == value.
as_expression(f, value) == eq(f, value)

\* EqualsExpression.evaluate(ctx): field.evaluate(ctx) == value
ExprEvaluate(e, f, ctx) == FieldExtract(f, ctx) = e.value

\* The step of the loop of search_robust at one key: the field is looked up
\* in the registry, "break" leaves the loop without a yield, "continue"
\* keeps the key, "pop" removes it as matched.
MatchKey(registry, document, key, value) ==
    LET f == RegistryGet(registry, key)
    IN CASE f = NoneV -> "break"
         [] ~can_extract(f) -> "continue"
         [] FieldExtract(f, document) = NoneV -> "continue"
         [] ExprEvaluate(as_expression(f, value), f, document) -> "pop"
         [] OTHER -> "break"

\* The product was not yielded.
Skipped == [t |-> "skipped"]

\* Variant: a key without a field is kept as unmatchable.
search_robust_KeepUnknown(registry, docs, q) ==
    [p \in ProductNames |->
        LET rest == Without(q, {"product", "metadata_type"})
            step(k) == IF RegistryGet(registry, k) = NoneV THEN "continue"
                       ELSE MatchKey(registry, docs[p], k, rest[k])
        IN IF DictGet(q, "product") \notin {NoneV, Name(p)} THEN Skipped
           ELSE IF DictGet(q, "metadata_type") \notin {NoneV, Name(MetadataTypeName)} THEN Skipped
           ELSE IF \E k \in DOMAIN rest : step(k) = "break" THEN Skipped
           ELSE [remaining |-> Without(rest, {k \in DOMAIN rest : step(k) = "pop"})]]

\* ProductResource.search_robust: per product, the remaining query it is
\* yielded with, or Skipped.
search_robust(registry, docs, q) ==
    [p \in ProductNames |->
        LET rest == Without(q, {"product", "metadata_type"})
            step(k) == MatchKey(registry, docs[p], k, rest[k])
        IN IF DictGet(q, "product") \notin {NoneV, Name(p)} THEN Skipped
           ELSE IF DictGet(q, "metadata_type") \notin {NoneV, Name(MetadataTypeName)} THEN Skipped
           ELSE IF \E k \in DOMAIN rest : step(k) = "break" THEN Skipped
           ELSE [remaining |-> Without(rest, {k \in DOMAIN rest : step(k) = "pop"})]]

\* DatasetResource._get_product_queries: the yielded products, each with its
\* remaining query and its product_id.
get_product_queries(registry, docs, q) ==
    LET found == search_robust(registry, docs, q)
    IN [p \in {n \in ProductNames : found[n] # Skipped} |->
            Update(found[p].remaining, [product_id |-> ProductId(p)])]

\* The lookup failure of an unknown field name; it names the key.
UnknownFieldError(key) == [t |-> "error", e |-> "UnknownFieldError", key |-> key]

\* The keys of a translated query in their order: the caller's, then the
\* product_id added by _get_product_queries.
QueryOrder == KeyOrder \o <<"product_id">>

\* The first key of the query that has no field; get_field is given as the
\* mapping from the keys of the query to what the lookup answers.
FirstUnknown(lookup, q) ==
    LET unknown(i) == QueryOrder[i] \in DOMAIN q /\ lookup[QueryOrder[i]] = NoneV
        first == CHOOSE i \in DOMAIN QueryOrder :
                    unknown(i) /\ \A j \in 1..(i - 1) : ~unknown(j)
    IN QueryOrder[first]

\* index.fields.to_expressions(get_field, **query): one expression per key,
\* a key without a field raises the lookup failure.
to_expressions(lookup, q) ==
    IF \E k \in DOMAIN q : lookup[k] = NoneV
    THEN UnknownFieldError(FirstUnknown(lookup, q))
    ELSE [k \in DOMAIN q |-> as_expression(lookup[k], q[k])]

\* to_expressions(dataset_fields.get, **q)
Translate(registry, q) ==
    to_expressions([k \in DOMAIN q |-> RegistryGet(registry, k)], q)

NoProducts(q) ==
    [t |-> "error", e |-> "ValueError",
     msg |-> IF "product" \in DOMAIN q THEN "No such product" ELSE "No products match search terms"]

\* mk_simple_offset_field(name, name, offset)
mk_simple_offset_field(offset) == SimpleDocField("string", FALSE, offset, "first")

\* custom_offsets of search_returning: names with the offset of each.
CustomOffsets == UNION {[K -> {One(<<"a">>)}] : K \in SUBSET {"cloud", "platform"}}

\* DatasetResource._do_search_by_product, run to its end: the registry it
\* leaves and, per matched product, the predicates handed to the backend.
do_search_by_product(registry, docs, q, additional_fields) ==
    LET product_queries == get_product_queries(registry, docs, q)
        after == IF DOMAIN additional_fields # {}
                 THEN Update(registry, additional_fields)
                 ELSE registry
    IN IF DOMAIN product_queries = {}
       THEN [registry |-> registry, out |-> NoProducts(q)]
       ELSE [registry |-> after,
             out |-> [p \in DOMAIN product_queries |-> Translate(after, product_queries[p])]]

\* DatasetResource._do_count_by_product
do_count_by_product(registry, docs, q) ==
    LET product_queries == get_product_queries(registry, docs, q)
    IN [p \in DOMAIN product_queries |-> Translate(registry, product_queries[p])]

InitSearch ==
    /\ dataset_fields = BuiltFields
    /\ product_docs \in [ProductNames -> ProductDocs]
    /\ search_terms \in Queries
    /\ returned = Unset
    /\ NotSearchIdle

\* DatasetResource.search(**query)
Search ==
    LET r == do_search_by_product(dataset_fields, product_docs, search_terms, <<>>)
    IN /\ dataset_fields' = r.registry
       /\ returned' = [op |-> "search", out |-> r.out]
       /\ UNCHANGED <<product_docs, search_terms, NotSearch>>

\* DatasetResource.search_returning(custom_offsets=..., **query)
SearchReturning ==
    \E custom_offsets \in CustomOffsets :
        LET custom_fields == [n \in DOMAIN custom_offsets |->
                                 mk_simple_offset_field(custom_offsets[n])]
            r == do_search_by_product(dataset_fields, product_docs, search_terms,
                                      custom_fields)
        IN /\ dataset_fields' = r.registry
           /\ returned' = [op |-> "search_returning", custom |-> DOMAIN custom_offsets,
                           out |-> r.out]
           /\ UNCHANGED <<product_docs, search_terms, NotSearch>>

\* DatasetResource.count(**query)
Count ==
    /\ returned' = [op |-> "count",
                    out |-> do_count_by_product(dataset_fields, product_docs, search_terms)]
    /\ UNCHANGED <<dataset_fields, product_docs, search_terms, NotSearch>>

\* DatasetResource.count_product_through_time(period, time=..., **query):
\* _do_time_count with ensure_single, the time range taken off the query.
CountProductThroughTime ==
    LET product_queries == get_product_queries(dataset_fields, product_docs, search_terms)
        n == Cardinality(DOMAIN product_queries)
    IN /\ returned' =
            [op |-> "count_product_through_time",
             out |-> CASE n = 0 -> [t |-> "error", e |-> "ValueError",
                                    msg |-> "No products match search terms"]
                       [] n > 1 -> [t |-> "error", e |-> "ValueError",
                                    msg |-> "Multiple products match single query search"]
                       [] OTHER -> [p \in DOMAIN product_queries |->
                                       Translate(dataset_fields, product_queries[p])]]
       /\ UNCHANGED <<dataset_fields, product_docs, search_terms, NotSearch>>

\* fields.to_expressions(dataset_fields.get, **query), on the query as given
ToExpressions ==
    /\ returned' = [op |-> "to_expressions",
                    out |-> Translate(dataset_fields,
                                      Without(search_terms, {"product", "metadata_type"}))]
    /\ UNCHANGED <<dataset_fields, product_docs, search_terms, NotSearch>>

\* ProductResource.search_robust(**query), consumed to its end
SearchRobust ==
    /\ returned' = [op |-> "search_robust",
                    out |-> search_robust(dataset_fields, product_docs, search_terms)]
    /\ UNCHANGED <<dataset_fields, product_docs, search_terms, NotSearch>>

NextSearch ==
    \/ Search
    \/ SearchReturning
    \/ Count
    \/ CountProductThroughTime
    \/ ToExpressions
    \/ SearchRobust

SpecSearch == InitSearch /\ [][NextSearch]_vars

\* C22: no query operation changes the registry: it stays the mapping built
\* from the metadata type's definition.
C22_RegistryImmutable == [][dataset_fields' = dataset_fields]_vars

Translated == returned # Unset /\ returned.op = "to_expressions"

\* The keys to_expressions was called with.
TranslatedQuery == Without(search_terms, {"product", "metadata_type"})

\* The keys of the translated query that name no field of the registry.
UnknownKeys == DOMAIN TranslatedQuery \ DOMAIN dataset_fields

----------------------------------------------------------------------------
(* model.ranges_overlap: do two half-open ranges share a point?            *)

MaxEnd == 3

\* Range(begin, end) with begin <= end; begin = end is an empty range.
OrderedRanges == {r \in {Range(b, e) : b \in 0..MaxEnd, e \in 0..MaxEnd} : r.begin <= r.end}

\* ranges_overlap(ra, rb)
ranges_overlap(a, b) ==
    IF a.begin <= b.begin THEN a.end > b.begin ELSE b.end > a.begin

InitOverlap ==
    /\ ra \in OrderedRanges
    /\ rb \in OrderedRanges
    /\ overlap = Unset
    /\ NotOverlapIdle

\* ranges_overlap(ra, rb)
RangesOverlap ==
    /\ overlap' = [first |-> ra, second |-> rb, result |-> ranges_overlap(ra, rb)]
    /\ UNCHANGED <<ra, rb, NotOverlap>>

\* ranges_overlap(rb, ra)
RangesOverlapSwapped ==
    /\ overlap' = [first |-> rb, second |-> ra, result |-> ranges_overlap(rb, ra)]
    /\ UNCHANGED <<ra, rb, NotOverlap>>

NextOverlap == RangesOverlap \/ RangesOverlapSwapped

SpecOverlap == InitOverlap /\ [][NextOverlap]_vars

\* [a.begin, a.end) and [b.begin, b.end) have a point in common.
SharePoint(a, b) ==
    \E p \in 0..MaxEnd : a.begin <= p /\ p < a.end /\ b.begin <= p /\ p < b.end

\* C24: ranges_overlap is true exactly when the two half-open ranges share a
\* point, empty ranges included, and the order of the arguments does not
\* change the answer.
C24_OverlapIsSharedPoint ==
    overlap # Unset =>
        /\ overlap.result = SharePoint(overlap.first, overlap.second)
        /\ overlap.result = ranges_overlap(overlap.second, overlap.first)

----------------------------------------------------------------------------
(* Archiving, restoring and purging datasets of the PostGIS index.         *)

MaxIds == 2

Ids == 1..MaxIds

\* The ids handed to one call: any list of at most MaxIds ids, repeats and
\* ids without a row included.
IdLists == UNION {[1..n -> Ids] : n \in 0..MaxIds}

RowStates == {"absent", "active", "archived"}

\* transaction.archive_dataset(id): an active row becomes archived.
archive_dataset(table, id) ==
    IF table[id] = "active" THEN [table EXCEPT ![id] = "archived"] ELSE table

\* transaction.restore_dataset(id): an archived row becomes active.
restore_dataset(table, id) ==
    IF table[id] = "archived" THEN [table EXCEPT ![id] = "active"] ELSE table

\* transaction.delete_dataset(id): the row is removed.
delete_dataset(table, id) == [table EXCEPT ![id] = "absent"]

RECURSIVE ForEach(_, _, _, _)
\* for id_ in ids: step(table, id_), from the i-th id on.
ForEach(step(_, _), table, ids, i) ==
    IF i > Len(ids) THEN table ELSE ForEach(step, step(table, ids[i]), ids, i + 1)

\* Variant: the archived test is left out.
purge_AnyState(committed, ids, allow_delete_active, own_writes) ==
    LET RECURSIVE Loop(_, _, _)
        Loop(table, purged, i) ==
            IF i > Len(ids) THEN [table |-> table, purged |-> purged]
            ELSE LET id_ == ids[i]
                     ds == IF own_writes THEN table[id_] ELSE committed[id_]
                 IN IF ds = "absent" THEN Loop(table, purged, i + 1)
                    ELSE Loop(delete_dataset(table, id_), Append(purged, id_), i + 1)
    IN Loop(committed, <<>>, 1)

\* DatasetResource.purge(ids, allow_delete_active): the table it leaves and
\* the list it returns. self.get reads through its own connection: with
\* own_writes it sees the rows this call has deleted so far, without it the
\* table as committed before the call.
purge(committed, ids, allow_delete_active, own_writes) ==
    LET RECURSIVE Loop(_, _, _)
        Loop(table, purged, i) ==
            IF i > Len(ids) THEN [table |-> table, purged |-> purged]
            ELSE LET id_ == ids[i]
                     ds == IF own_writes THEN table[id_] ELSE committed[id_]
                 IN IF ds = "absent" THEN Loop(table, purged, i + 1)
                    ELSE IF ds # "archived" /\ ~allow_delete_active
                    THEN Loop(table, purged, i + 1)
                    ELSE Loop(delete_dataset(table, id_), Append(purged, id_), i + 1)
    IN Loop(committed, <<>>, 1)

InitStore ==
    /\ datasets \in [Ids -> RowStates]
    /\ purge_call = Unset
    /\ NotStoreIdle

\* DatasetResource.archive(ids)
Archive ==
    \E ids \in IdLists :
        /\ datasets' = ForEach(archive_dataset, datasets, ids, 1)
        /\ UNCHANGED <<purge_call, NotStore>>

\* DatasetResource.restore(ids)
Restore ==
    \E ids \in IdLists :
        /\ datasets' = ForEach(restore_dataset, datasets, ids, 1)
        /\ UNCHANGED <<purge_call, NotStore>>

\* DatasetResource.purge(ids, allow_delete_active)
Purge ==
    \E ids \in IdLists, allow_delete_active \in BOOLEAN, own_writes \in BOOLEAN :
        LET r == purge(datasets, ids, allow_delete_active, own_writes)
        IN /\ datasets' = r.table
           /\ purge_call' = [ids |-> ids, allow_delete_active |-> allow_delete_active,
                             before |-> datasets, after |-> r.table, purged |-> r.purged]
           /\ UNCHANGED NotStore

NextStore == Archive \/ Restore \/ Purge

SpecStore == InitStore /\ [][NextStore]_vars

\* The ids whose row the last purge removed.
Deleted == {id \in Ids : purge_call.before[id] # "absent" /\ purge_call.after[id] = "absent"}

Returned == {purge_call.purged[i] : i \in DOMAIN purge_call.purged}

\* C25: a purge without allow_delete_active removes only rows that were
\* archived, and the list a purge returns holds exactly the ids whose rows
\* it removed.
C25_PurgeDeletesOnlyArchived ==
    purge_call # Unset =>
        /\ ~purge_call.allow_delete_active =>
               \A id \in Deleted : purge_call.before[id] = "archived"
        /\ Returned = Deleted

\* A purge without allow_delete_active was given an active and an archived
\* id: it removed and returned the archived one and left the active one.
C25_Witness ==
    /\ purge_call # Unset
    /\ ~purge_call.allow_delete_active
    /\ \E a, b \in Ids :
        /\ purge_call.ids = <<a, b>>
        /\ purge_call.before[a] = "active"
        /\ purge_call.before[b] = "archived"
        /\ purge_call.after[a] = "active"
        /\ purge_call.purged = <<b>>

----------------------------------------------------------------------------
(* The ProductResource of the Postgres index: add, update, delete and the  *)
(* two memoized lookups get_by_name_unsafe and get_unsafe.                 *)

\* No row of that name or id in the product table.
NoRow == [t |-> "norow"]

ProductDefinitions == {"d1", "d2"}

ProductIds == {ProductId(n) : n \in ProductNames}

NameOfId(id) == CHOOSE n \in ProductNames : ProductId(n) = id

\* _make(row): the Product built from a row of the table.
MakeProduct(name, row) == [name |-> name, id |-> ProductId(name), definition |-> row.definition]

ProductLists == {<<>>} \cup {<<n>> : n \in ProductNames}
                       \cup {<<n, m>> : n \in ProductNames, m \in ProductNames}

\* Variant: clearing keeps the entries.
cache_clear_Keep(cache) == cache

\* lru_cache.cache_clear()
cache_clear(cache) == [k \in DOMAIN cache |-> Unset]

\* The memoized get_by_name_unsafe(name): the cached Product if there is
\* one, else the Product of the row, which is then cached; a KeyError (no
\* row) is not cached.
get_by_name_unsafe(rows, cache, name) ==
    CASE cache[name] # Unset -> [cache |-> cache, result |-> cache[name]]
      [] rows[name] = NoRow -> [cache |-> cache, result |-> Err("KeyError")]
      [] OTHER -> [cache |-> [cache EXCEPT ![name] = MakeProduct(name, rows[name])],
                   result |-> MakeProduct(name, rows[name])]

\* The memoized get_unsafe(id_)
get_unsafe(rows, cache, id) ==
    LET name == NameOfId(id)
    IN CASE cache[id] # Unset -> [cache |-> cache, result |-> cache[id]]
         [] rows[name] = NoRow -> [cache |-> cache, result |-> Err("KeyError")]
         [] OTHER -> [cache |-> [cache EXCEPT ![id] = MakeProduct(name, rows[name])],
                      result |-> MakeProduct(name, rows[name])]

\* get_by_name(name): None instead of the KeyError.
get_by_name(rows, cache, name) ==
    LET r == get_by_name_unsafe(rows, cache, name)
    IN [cache |-> r.cache, result |-> IF IsErr(r.result) THEN NoneV ELSE r.result]

\* DatasetResource.purge(self, ids) of the Postgres index, called with the
\* positional arguments args: it has the one parameter ids, deletes every
\* id and returns nothing.
postgres_purge(row, args) ==
    IF Len(args) # 1 THEN [row |-> row, result |-> Err("TypeError")]
    ELSE [row |-> "absent", result |-> NoneV]

\* len(x): of a list; None has no len().
PyLen(x) == IF x = NoneV THEN Err("TypeError") ELSE Num(Len(x))

\* How the loop of delete left a product.
Kept == [t |-> "kept"]
Gone == [t |-> "deleted"]

\* The body of the loop of ProductResource.delete for one product.
delete_one(rows, ds_rows, name, allow_delete_active) ==
    LET product_datasets == IF ds_rows[name] = "absent" THEN <<>> ELSE <<name>>
        p == postgres_purge(ds_rows[name], <<product_datasets, allow_delete_active>>)
        n == PyLen(p.result)
    IN CASE rows[name] = NoRow -> [rows |-> rows, ds_rows |-> ds_rows, result |-> Err("ValueError")]
         [] IsErr(p.result) -> [rows |-> rows, ds_rows |-> ds_rows, result |-> p.result]
         [] IsErr(n) -> [rows |-> rows, ds_rows |-> ds_rows, result |-> n]
         [] n # Num(Len(product_datasets)) ->
                [rows |-> rows, ds_rows |-> [ds_rows EXCEPT ![name] = p.row], result |-> Kept]
         [] OTHER -> [rows |-> [rows EXCEPT ![name] = NoRow],
                      ds_rows |-> [ds_rows EXCEPT ![name] = p.row], result |-> Gone]

\* ProductResource.delete(products, allow_delete_active): the tables it
\* leaves and the list it returns, or the error that ends it; the error
\* rolls back the transaction of the product it was raised for.
delete(rows, ds_rows, names, allow_delete_active) ==
    LET RECURSIVE Loop(_, _, _, _)
        Loop(r, d, deleted, i) ==
            IF i > Len(names) THEN [rows |-> r, ds_rows |-> d, result |-> [deleted |-> deleted]]
            ELSE LET one == delete_one(r, d, names[i], allow_delete_active)
                 IN CASE one.result \notin {Kept, Gone} ->
                            [rows |-> r, ds_rows |-> d, result |-> one.result]
                      [] one.result = Kept -> Loop(one.rows, one.ds_rows, deleted, i + 1)
                      [] OTHER -> Loop(one.rows, one.ds_rows, Append(deleted, names[i]), i + 1)
    IN Loop(rows, ds_rows, <<>>, 1)

InitCatalog ==
    /\ product_rows \in [ProductNames -> {NoRow} \cup {[definition |-> d] : d \in ProductDefinitions}]
    /\ dataset_rows \in {d \in [ProductNames -> RowStates] :
                            \A n \in ProductNames : product_rows[n] = NoRow => d[n] = "absent"}
    /\ by_name = [n \in ProductNames |-> Unset]
    /\ by_id = [i \in ProductIds |-> Unset]
    /\ reply = Unset
    /\ NotCatalogIdle

\* products.get_by_name(name)
GetByName ==
    \E name \in ProductNames :
        LET r == get_by_name(product_rows, by_name, name)
        IN /\ by_name' = r.cache
           /\ reply' = [op |-> "get_by_name", name |-> name, result |-> r.result]
           /\ UNCHANGED <<product_rows, dataset_rows, by_id, NotCatalog>>

\* products.get(id_)
GetById ==
    \E id \in ProductIds :
        LET r == get_unsafe(product_rows, by_id, id)
        IN /\ by_id' = r.cache
           /\ reply' = [op |-> "get", name |-> NameOfId(id),
                        result |-> IF IsErr(r.result) THEN NoneV ELSE r.result]
           /\ UNCHANGED <<product_rows, dataset_rows, by_name, NotCatalog>>

\* ProductResource.add(product)
AddProduct ==
    \E name \in ProductNames, new_definition \in ProductDefinitions :
        LET existing == get_by_name(product_rows, by_name, name)
            rows == IF existing.result = NoneV
                    THEN [product_rows EXCEPT ![name] = [definition |-> new_definition]]
                    ELSE product_rows
            added == get_by_name(rows, existing.cache, name)
        IN IF existing.result # NoneV /\ existing.result.definition # new_definition
           THEN /\ by_name' = existing.cache
                /\ reply' = [op |-> "add", name |-> name, result |-> Err("DocumentMismatchError")]
                /\ UNCHANGED <<product_rows, dataset_rows, by_id, NotCatalog>>
           ELSE /\ product_rows' = rows
                /\ by_name' = added.cache
                /\ reply' = [op |-> "add", name |-> name, result |-> added.result]
                /\ UNCHANGED <<dataset_rows, by_id, NotCatalog>>

\* ProductResource.update(product, allow_unsafe_updates); unsafe says whether
\* the changes of the definition include one that is not allowed.
UpdateProduct ==
    \E name \in ProductNames, new_definition \in ProductDefinitions,
       allow_unsafe_updates \in BOOLEAN, unsafe \in BOOLEAN :
        LET existing == get_by_name(product_rows, by_name, name)
            rows == [product_rows EXCEPT ![name] = [definition |-> new_definition]]
            updated == get_by_name(rows, cache_clear(existing.cache), name)
        IN CASE existing.result = NoneV ->
                    /\ reply' = [op |-> "update", name |-> name, result |-> Err("ValueError")]
                    /\ UNCHANGED <<product_rows, dataset_rows, by_name, by_id, NotCatalog>>
             [] existing.result # NoneV /\ existing.result.definition = new_definition ->
                    /\ by_name' = existing.cache
                    /\ reply' = [op |-> "update", name |-> name, result |-> existing.result]
                    /\ UNCHANGED <<product_rows, dataset_rows, by_id, NotCatalog>>
             [] OTHER ->
                    IF unsafe /\ ~allow_unsafe_updates
                    THEN /\ by_name' = existing.cache
                         /\ reply' = [op |-> "update", name |-> name, result |-> Err("ValueError")]
                         /\ UNCHANGED <<product_rows, dataset_rows, by_id, NotCatalog>>
                    ELSE /\ product_rows' = rows
                         /\ by_name' = updated.cache
                         /\ by_id' = cache_clear(by_id)
                         /\ reply' = [op |-> "update", name |-> name, result |-> updated.result,
                                      was |-> existing.result,
                                      had_id |-> by_id[ProductId(name)] # Unset]
                         /\ UNCHANGED <<dataset_rows, NotCatalog>>

\* ProductResource.delete(products, allow_delete_active)
DeleteProducts ==
    \E names \in ProductLists, allow_delete_active \in BOOLEAN :
        LET r == delete(product_rows, dataset_rows, names, allow_delete_active)
        IN /\ product_rows' = r.rows
           /\ dataset_rows' = r.ds_rows
           /\ reply' = [op |-> "delete", names |-> names,
                        allow_delete_active |-> allow_delete_active,
                        before |-> [rows |-> product_rows, ds_rows |-> dataset_rows],
                        result |-> r.result]
           /\ UNCHANGED <<by_name, by_id, NotCatalog>>

NextCatalog == GetByName \/ GetById \/ AddProduct \/ UpdateProduct \/ DeleteProducts

SpecCatalog == InitCatalog /\ [][NextCatalog]_vars

Deleting == reply # Unset /\ reply.op = "delete"

\* The products of the call that the call is allowed to delete.
Deletable ==
    {reply.names[i] : i \in DOMAIN reply.names} \cap
        {n \in ProductNames : reply.before.rows[n] # NoRow
                              /\ (reply.allow_delete_active \/ reply.before.ds_rows[n] # "active")}

\* C26: delete removes each product it is given together with the
\* product's datasets and returns the list of the removed products; without
\* allow_delete_active a product with an active dataset is kept and is not
\* in the list.
C26_DeleteRemovesProducts ==
    Deleting /\ (\A i \in DOMAIN reply.names : reply.before.rows[reply.names[i]] # NoRow) =>
        /\ ~IsErr(reply.result)
        /\ {reply.result.deleted[i] : i \in DOMAIN reply.result.deleted} = Deletable
        /\ \A n \in Deletable : product_rows[n] = NoRow /\ dataset_rows[n] = "absent"
        /\ \A n \in ProductNames \ Deletable : product_rows[n] = reply.before.rows[n]

Searched == returned # Unset /\ returned.op = "search_robust"

\* The products the last search_robust yielded.
Yielded == {p \in ProductNames : returned.out[p] # Skipped}

\* The keys of the query that are matched against a product.
Matchable == DOMAIN search_terms \ {"product", "metadata_type"}

\* The key has a field that can be extracted and has a value in the
\* metadata document of product p.
DefinedIn(p, key) ==
    /\ key \in DOMAIN dataset_fields
    /\ can_extract(dataset_fields[key])
    /\ FieldExtract(dataset_fields[key], product_docs[p]) # NoneV

\* C27: search_robust yields a product only if every key but product and
\* metadata_type names a field of the metadata type and every key defined
\* in the product's metadata document has the queried value there; the
\* remaining query it yields holds exactly the other keys, with their values.
C27_SearchRobustMatches ==
    Searched =>
        \A p \in Yielded :
            /\ Matchable \subseteq DOMAIN dataset_fields
            /\ \A k \in Matchable :
                   DefinedIn(p, k) =>
                       FieldExtract(dataset_fields[k], product_docs[p]) = search_terms[k]
            /\ returned.out[p].remaining =
                   Without(search_terms, {"product", "metadata_type"}
                                         \cup {k \in Matchable : DefinedIn(p, k)})

\* A query on the product, its platform and its orbit: the product's document
\* has the platform asked for and no orbit, so it is yielded with the orbit
\* as the remaining query.
C27_Witness ==
    /\ Searched
    /\ DOMAIN search_terms = {"product", "platform", "orbit"}
    /\ \E p \in Yielded :
        /\ DefinedIn(p, "platform")
        /\ DOMAIN returned.out[p].remaining = {"orbit"}

----------------------------------------------------------------------------
(* The search index table. The indexed fields of one broad kind share one  *)
(* table; a row holds the dataset it indexes, the name of the field and    *)
(* the indexed value.                                                      *)

\* Two indexed string fields: both are kept in the string index table.
IndexedNames == {"platform", "instrument"}

IndexedValues == {Str(0), Str(1)}

SearchRow(dataset_ref, search_key, val) ==
    [dataset_ref |-> dataset_ref, search_key |-> search_key, search_val |-> val]

\* The values extract_dataset_fields finds in a dataset's document: a value
\* for some of the fields.
FieldValues == UNION {[K -> IndexedValues] : K \in SUBSET IndexedNames}

\* The rows _add_batch writes for one dataset: one per field with a value.
search_indexes(dsid, search_field_vals) ==
    {SearchRow(dsid, fname, search_field_vals[fname]) : fname \in DOMAIN search_field_vals}

\* Variant: the join tests the dataset only.
dataset_join_args_AnyKey(name, id, row) == row.dataset_ref = id

\* PgField.dataset_join_args of an indexed field: a row of the field's alias
\* of the index table joins a dataset when it indexes that dataset under
\* the field's name.
dataset_join_args(name, id, row) ==
    /\ row.dataset_ref = id
    /\ row.search_key = name

\* The datasets selected by field == value: those with a joined row whose
\* search_val (the field's search_alchemy_expression) equals the value.
SelectEquals(rows, name, v) ==
    {id \in Ids : \E row \in rows : dataset_join_args(name, id, row) /\ row.search_val = v}

InitRows ==
    /\ search_rows = {}
    /\ probe = Unset
    /\ NotRowsIdle

\* DatasetResource._add_batch for one dataset that is not yet indexed
AddDataset ==
    \E dsid \in Ids, search_field_vals \in FieldValues :
        /\ \A row \in search_rows : row.dataset_ref # dsid
        /\ search_rows' = search_rows \cup search_indexes(dsid, search_field_vals)
        /\ UNCHANGED <<probe, NotRows>>

\* A search with the expression field == value on an indexed field
SearchEquals ==
    \E name \in IndexedNames, v \in IndexedValues :
        /\ probe' = [name |-> name, value |-> v, rows |-> search_rows,
                     matched |-> SelectEquals(search_rows, name, v)]
        /\ UNCHANGED <<search_rows, NotRows>>

NextRows == AddDataset \/ SearchEquals

SpecRows == InitRows /\ [][NextRows]_vars

\* C28: a search on an indexed field matches a dataset only through a row
\* that indexes this dataset under this field's name; a value stored for
\* the dataset under another field's name does not make it match.
C28_OnlyOwnRowsMatch ==
    probe # Unset =>
        \A id \in Ids :
            id \in probe.matched <=>
                SearchRow(id, probe.name, probe.value) \in probe.rows

\* A dataset holds the searched value under the other field only and is not
\* matched, while a dataset that holds it under the searched field is.
C28_Witness ==
    /\ probe # Unset
    /\ \E id, other \in Ids, y \in IndexedNames \ {probe.name} :
        /\ SearchRow(id, y, probe.value) \in probe.rows
        /\ SearchRow(id, probe.name, probe.value) \notin probe.rows
        /\ id \notin probe.matched
        /\ other \in probe.matched

\* The cached Product of a name or id is the Product of the current row.
Fresh(cached, name) ==
    cached # Unset =>
        product_rows[name] # NoRow /\ cached = MakeProduct(name, product_rows[name])

----------------------------------------------------------------------------
(* Dynamic token authentication: the do_connect listener installed by      *)
(* handle_dynamic_token_authentication sets the password of every new      *)
(* connection to a token it refetches when the last one is too old.        *)

MaxClock == 7

Timeouts == {1, 2}

\* new_token(**kwargs): every call gives a new token.
new_token(n) == [token |-> n]

\* Variant: the token is refetched at the timeout already.
Expired_AtTimeout(clock, fetched_at, limit) == clock - fetched_at >= limit

\* now - last_token_time[0] > timeout
Expired(clock, fetched_at, limit) == clock - fetched_at > limit

\* The clock reads seconds since 1970, far more than any timeout.
InitAuth ==
    /\ timeout \in Timeouts
    /\ now \in {c \in 1..MaxClock : c > timeout}
    /\ last_token = NoneV
    /\ last_token_time = 0
    /\ fetched = 0
    /\ connection = Unset
    /\ NotAuthIdle

\* Time passes.
Tick ==
    /\ now < MaxClock
    /\ now' = now + 1
    /\ UNCHANGED <<timeout, last_token, last_token_time, fetched, connection, NotAuth>>

\* override_new_connection: the engine opens a new connection.
Connect ==
    LET expired == Expired(now, last_token_time, timeout)
        token == IF expired THEN new_token(fetched + 1) ELSE last_token
    IN /\ last_token' = token
       /\ last_token_time' = IF expired THEN now ELSE last_token_time
       /\ fetched' = IF expired THEN fetched + 1 ELSE fetched
       /\ connection' = [at |-> now, first |-> connection = Unset, fetched_now |-> expired,
                         last_fetch |-> last_token_time, password |-> token]
       /\ UNCHANGED <<now, timeout, NotAuth>>

NextAuth == Tick \/ Connect

SpecAuth == InitAuth /\ [][NextAuth]_vars

ReusedAtTimeout ==
    /\ connection # Unset
    /\ ~connection.first
    /\ ~connection.fetched_now
    /\ connection.at - last_token_time = timeout
    /\ connection.password = new_token(1)

====
